---- MODULE Spec2Model ----
(***************************************************************************)
(* A model of Reinhard's command routing (reinhard/util/command_client.py) *)
(* and of its resilient respond loop (reinhard/util/rest_manager.py,       *)
(* reinhard/util/command_hooks.py).                                        *)
(*                                                                         *)
(* Strings are sequences of one-character strings, so that startswith and  *)
(* slicing are computed and not assumed.                                   *)
(***************************************************************************)
EXTENDS Integers, Sequences, FiniteSets, TLC

(***************************************************************************)
(* Bounds of the model.                                                    *)
(***************************************************************************)
\* Registered sub-clusters + registered commands + custom checks + removed
\* prefix checks of one configuration.
MaxSize == 4

\* Retry loops started by the concurrent tasks of one run.
MaxCalls == 2

\* Length of the message contents whose prefix is resolved.
MaxContent == 3

\* add_cluster_event calls of one run.
MaxListeners == 2

\* bind_commands calls of one run.
MaxBinds == 2

\* Triggers (trigger and aliases) of a command whose check_prefix is evaluated
\* on its own.
MaxTriggers == 2

(***************************************************************************)
(* String helpers (Python str operations).                                 *)
(***************************************************************************)
\* str.startswith
startswith(s, p) == Len(p) <= Len(s) /\ SubSeq(s, 1, Len(p)) = p

\* s[n:]
slice_from(s, n) == IF n >= Len(s) THEN <<>> ELSE SubSeq(s, n + 1, Len(s))

(***************************************************************************)
(* The fixed universe: command objects, clusters, users, messages.         *)
(***************************************************************************)
CommandIds == {"c1", "c2", "c3"}

\* Command.triggers: (trigger, *aliases)
triggers(c) ==
    CASE c = "c1" -> << <<"a">> >>
      [] c = "c2" -> << <<"a", "b">> >>
      [] c = "c3" -> << <<"b">>, <<"a">> >>

\* Command.level
level(c) ==
    CASE c = "c1" -> 0
      [] c = "c2" -> 2
      [] c = "c3" -> 1

\* The router itself is the first cluster of every traversal.
Root == "self"

\* Class names of the sub-clusters that can be registered; the first instance
\* of a class goes by the name of its class.
ClusterNames == {"A", "B"}

\* The cluster instances: A2 is a second instance of the class A.
ClusterInstances == ClusterNames \cup {"A2"}

\* cluster.__class__.__name__
class_name(cluster) == IF cluster = "A2" THEN "A" ELSE cluster

\* Command.name, the name of the handler function: c2's trigger was generated
\* from its name; c1 and c3 were given their triggers.
Command_name(c) ==
    CASE c = "c1" -> <<"b">>
      [] c = "c2" -> <<"a", "b">>
      [] c = "c3" -> <<"c">>

\* The Command objects that are attributes of a cluster's class, as
\* inspect.getmembers returns them: in ascending order of attribute name (the
\* handler function's name).  Instances of one class share them.
getmembers(cluster) ==
    IF class_name(cluster) = "A" THEN <<"c2", "c1">> ELSE <<>>

\* CommandClientOptions.access_levels: user id -> level; u0 is not configured.
access_levels == [u \in {"u1", "u2"} |-> IF u = "u1" THEN 1 ELSE 2]

\* CommandClientOptions.prefixes
prefixes == << <<"!">>, <<"?">> >>

\* The optional per-guild prefix resolver: guild g1 has the prefix "?", guild
\* g2 the prefix "!a", any other guild none.
get_guild_prefix(guild) ==
    CASE guild = "g1" -> <<"?">>
      [] guild = "g2" -> <<"!", "a">>
      [] OTHER -> <<>>

NoGuild == "None"

Authors == {"u0", "u1", "u2"}

Contents ==
    { <<"!", "a", "b", " ", "x">>,   \* every command's trigger matches
      <<"?", "b", " ", "x">>,        \* only c3 matches
      <<"a", "b">>,                  \* no prefix
      <<"!", "x">> }                 \* a prefix, no command

Messages ==
    [author : Authors, content : Contents, guild_id : {NoGuild}]
        \cup [author : {"u1"}, content : {<<"?", "b", " ", "x">>}, guild_id : {"g1"}]

\* What a check predicate registered by register_check does when called.
Outcomes == {"T", "F", "EXC"}

\* Command.check_prefix_from_context, the check every command starts with.
PrefixCheck == "check_prefix_from_context"

\* A check predicate that raises PermissionError, the HikariError subclass of
\* command_client.py.
PermissionError == "PermissionError"

\* The predicates that raise when they are called: PermissionError is an
\* Exception like any other.
Raising == {"EXC", PermissionError}

VARIABLES
    clusters,          \* CommandClient.clusters, in dict (insertion) order
    cluster_commands,  \* CommandCluster.cluster_commands of every cluster
    checks,            \* Command._checks of every command object
    pc,                \* where the one in-flight on_message_create is
    message,           \* its message
    prefix,            \* its resolved prefix, <<>> for None
    ctx,               \* its Context
    order,             \* (self, *self.clusters.values()) of its traversal
    pos,               \* the traversal's generator state: <<cluster, index>>
    selected,          \* command_obj after the async for
    checked,           \* history: commands whose check ran, in order
    denied,            \* history: commands yielded and refused by access_check
    executed,          \* history: <<command, ctx.content>> of every execute
    raised,            \* the exception that left on_message_create, or "none"
    trail,             \* history: what Command.execute did, in order
    binds,             \* history, per cluster: how every bind_commands call on it ended
    error,             \* the exception the last registration call raised, if any
    flights            \* per task: the locals of the on_message_create call the task runs,
                       \* when several messages are in flight

routerVars == <<clusters, cluster_commands, checks, pc, message, prefix, ctx, order,
                pos, selected, checked, denied, executed, raised, trail, binds, error, flights>>

VARIABLES
    manager,           \* the HikariErrorManager: built, its break_on argument, its rules
    backoff_handler,   \* HikariErrorManager._backoff_handler
    retry,             \* the Backoff local to a running error hook
    caller,            \* the function whose retry loop is running, or "none"
    rpc,               \* where that retry loop is
    log,               \* history of the loop: sleeps, failed and successful attempts
    propagated,        \* the exception that left the loop, or NoException
    reused             \* history: how the running try_respond call found the Backoff

respondVars == <<manager, backoff_handler, retry, caller, rpc, log, propagated, reused>>

VARIABLES
    tcaller,           \* per task: the function whose retry loop the task runs, or "none"
    tpc,               \* per task: where that retry loop is
    tretry,            \* per task: the Backoff local to the error hook it runs
    tcancelled,        \* per task: its loop was cancelled inside a sleep
    tprop,             \* per task: the exception that left its loop, or NoException
    calls              \* the calls started so far

taskVars == <<tcaller, tpc, tretry, tcancelled, tprop, calls>>

VARIABLES
    delegate,          \* per cluster: CommandCluster._event_dispatcher, <<name, listener>> as added
    subscribed,        \* history: the add_cluster_event calls, [cluster, event_name, listener]
    dispatched,        \* the last dispatch_cluster_event call, <<cluster, event, subscriptions
                       \* made before it>>, or <<>>
    invoked            \* the listeners that call ran, with what each did

eventVars == <<delegate, subscribed, dispatched, invoked>>

VARIABLES
    call,              \* the call of a function that is evaluated on its own: its name and arguments
    returned           \* what that call returned or raised

pureVars == <<call, returned>>

NoCommand == "None"

NoMessage == [author |-> "u0", content |-> <<>>, guild_id |-> NoGuild]

\* Context.__init__: command and triggering_name are unset slots.
Context(content) ==
    [content |-> content, command |-> NoCommand,
     trigger_set |-> FALSE, triggering_name |-> <<>>]

NoContext == Context(<<>>)

(***************************************************************************)
(* Python list helpers.                                                    *)
(***************************************************************************)
\* x in seq
contains(seq, x) == \E i \in 1..Len(seq) : seq[i] = x

\* list.index(x), for x in seq
index_of(seq, x) == CHOOSE i \in 1..Len(seq) : seq[i] = x /\ \A j \in 1..(i - 1) : seq[j] # x

\* list.remove(x), for x in seq: drops the first occurrence
remove(seq, x) ==
    LET i == index_of(seq, x)
    IN  SubSeq(seq, 1, i - 1) \o SubSeq(seq, i + 1, Len(seq))

\* The number of checks of a check list other than the prefix check
count_custom(seq) == Cardinality({i \in 1..Len(seq) : seq[i] # PrefixCheck})

RECURSIVE sum_len(_, _)
sum_len(f, S) ==
    IF S = {} THEN 0
    ELSE LET x == CHOOSE y \in S : TRUE IN Len(f[x]) + sum_len(f, S \ {x})

RECURSIVE sum_custom(_, _)
sum_custom(f, S) ==
    IF S = {} THEN 0
    ELSE LET x == CHOOSE y \in S : TRUE IN count_custom(f[x]) + sum_custom(f, S \ {x})

\* The size of the configuration that MaxSize bounds.
Size ==
    Len(clusters) + sum_len(cluster_commands, {Root} \cup ClusterInstances)
        + sum_custom(checks, CommandIds)
        + Cardinality({c \in CommandIds : ~contains(checks[c], PrefixCheck)})

\* The command objects registered in some cluster.
Registered ==
    {c \in CommandIds : \E cl \in {Root} \cup ClusterInstances : contains(cluster_commands[cl], c)}

(***************************************************************************)
(* Prefix resolution.                                                      *)
(***************************************************************************)
\* A bug: the guild's prefix is tried after the global prefixes.
_get_prefixes_guild_last(guild) ==
    IF guild = NoGuild
    THEN prefixes
    ELSE LET guild_prefix == get_guild_prefix(guild)
         IN  IF guild_prefix # <<>> THEN prefixes \o <<guild_prefix>> ELSE prefixes

\* CommandClient._get_prefixes
_get_prefixes(guild) ==
    IF guild = NoGuild
    THEN prefixes
    ELSE LET guild_prefix == get_guild_prefix(guild)
         IN  IF guild_prefix # <<>> THEN <<guild_prefix>> \o prefixes ELSE prefixes

\* CommandClient.check_prefix: the first applicable prefix the content starts
\* with; <<>> stands for None.
check_prefix(msg) ==
    LET ps == _get_prefixes(msg.guild_id)
        hits == {i \in 1..Len(ps) : startswith(msg.content, ps[i])}
    IN  IF hits = {} THEN <<>>
        ELSE ps[CHOOSE i \in hits : \A j \in hits : i <= j]

(***************************************************************************)
(* Command.                                                                *)
(***************************************************************************)
\* Context.set_command_trigger
set_command_trigger(cx, trigger) ==
    [cx EXCEPT !.trigger_set = TRUE, !.triggering_name = trigger]

\* Context.set_command
set_command(cx, c) == [cx EXCEPT !.command = c]

\* Context.prune_content
prune_content(cx, length) == [cx EXCEPT !.content = slice_from(cx.content, length)]

\* Command.check_prefix: the first trigger the content starts with; <<>> is None.
command_check_prefix(c, content) ==
    LET ts == triggers(c)
        hits == {i \in 1..Len(ts) : startswith(content, ts[i])}
    IN  IF hits = {} THEN <<>>
        ELSE ts[CHOOSE i \in hits : \A j \in hits : i <= j]

\* No call is being evaluated, and nothing was returned.
NoCall == [fn |-> "none"]
None == [raised |-> "none", found |-> FALSE, value |-> <<>>]

\* A bug: the loop keeps the last trigger the content starts with.
check_prefix_loop_last(ts, i, content) ==
    LET hits == {j \in i..Len(ts) : startswith(content, ts[j])}
    IN  IF hits = {} THEN None
        ELSE [raised |-> "none", found |-> TRUE,
              value |-> ts[CHOOSE j \in hits : \A k \in hits : k <= j]]

\* The for loop of Command.check_prefix from the i-th trigger on: the first
\* trigger content.startswith accepts is returned; falling off the end of the
\* loop returns None.
RECURSIVE check_prefix_loop(_, _, _)
check_prefix_loop(ts, i, content) ==
    IF i > Len(ts) THEN None
    ELSE IF startswith(content, ts[i])
    THEN [raised |-> "none", found |-> TRUE, value |-> ts[i]]
    ELSE check_prefix_loop(ts, i + 1, content)

\* Command.check_prefix of a command with the triggers ts, evaluated on its
\* own.
Command_check_prefix(ts, content) ==
    /\ call' = [fn |-> "Command.check_prefix", triggers |-> ts, content |-> content]
    /\ returned' = check_prefix_loop(ts, 1, content)
    /\ UNCHANGED <<routerVars, respondVars, taskVars, eventVars>>

\* Command.check_prefix_from_context: records the matched trigger in the context.
check_prefix_from_context(c, cx) ==
    LET ts == triggers(c)
        hits == {i \in 1..Len(ts) : startswith(cx.content, ts[i])}
    IN  IF hits = {}
        THEN [raised |-> FALSE, result |-> FALSE, ctx |-> cx]
        ELSE [raised |-> FALSE, result |-> TRUE,
              ctx |-> set_command_trigger(cx, ts[CHOOSE i \in hits : \A j \in hits : i <= j])]

\* One call check(ctx) of Command.check's loop.
call_check(c, p, cx) ==
    IF p = PrefixCheck
    THEN check_prefix_from_context(c, cx)
    ELSE [raised |-> p \in Raising, result |-> p = "T", ctx |-> cx]

\* A bug: a false result does not leave the loop; every predicate is called
\* and the last one decides.
check_loop_no_break(c, cs, i, result, cx) ==
    IF i > Len(cs)
    THEN [result |-> result, ctx |-> cx, called |-> <<>>]
    ELSE LET last == call_check(c, cs[Len(cs)], cx)
         IN  [result |-> ~last.raised /\ last.result,
              ctx |-> IF contains(SubSeq(cs, i, Len(cs)), PrefixCheck)
                      THEN check_prefix_from_context(c, cx).ctx ELSE cx,
              called |-> [k \in 1..(Len(cs) - i + 1) |-> i + k - 1]]

\* The for loop of Command.check from its i-th check on: an exception sets
\* result to False and the loop goes on; a false result breaks.  called is
\* the history of the loop: the positions of the checks it called, in order.
RECURSIVE check_loop(_, _, _, _, _)
check_loop(c, cs, i, result, cx) ==
    IF i > Len(cs)
    THEN [result |-> result, ctx |-> cx, called |-> <<>>]
    ELSE LET r == call_check(c, cs[i], cx)
         IN  IF r.raised
             THEN [check_loop(c, cs, i + 1, FALSE, cx) EXCEPT !.called = <<i>> \o @]
             ELSE IF ~r.result
                  THEN [result |-> FALSE, ctx |-> r.ctx, called |-> <<i>>]
                  ELSE [check_loop(c, cs, i + 1, TRUE, r.ctx) EXCEPT !.called = <<i>> \o @]

\* Command.check
check(c, cx) == check_loop(c, checks[c], 1, FALSE, set_command(cx, c))

\* Command.check of a registered command, evaluated on its own for a Context
\* with the given content.
Command_check(c, content) ==
    /\ pc = "idle"
    /\ c \in Registered
    /\ call' = [fn |-> "Command.check", command |-> c, checks |-> checks[c], content |-> content]
    /\ returned' = check(c, Context(content))
    /\ UNCHANGED <<routerVars, respondVars, taskVars, eventVars>>

(***************************************************************************)
(* CommandClient.                                                          *)
(***************************************************************************)
\* dict.get(message.author.id, 0)
user_level(author) ==
    IF author \in DOMAIN access_levels THEN access_levels[author] ELSE 0

\* A bug: the comparison is strict.
access_check_strict(c, msg) == user_level(msg.author) > level(c)

\* CommandClient.access_check
access_check(c, msg) == user_level(msg.author) >= level(c)

\* A bug: the router's own commands come after the sub-clusters'.
global_order_self_last == clusters \o <<Root>>

\* The cluster tuple of CommandClient.get_global_command_from_context.
global_order == <<Root>> \o clusters

\* The generator state after the exhausted clusters are left: the position of
\* the next command, or a cluster index past the end.
RECURSIVE seek(_, _)
seek(k, i) ==
    IF k > Len(order) THEN <<k, i>>
    ELSE IF i > Len(cluster_commands[order[k]]) THEN seek(k + 1, 1)
    ELSE <<k, i>>

(***************************************************************************)
(* Registration: the operations that build the configuration.  The         *)
(* specifications say when they run: between two messages, or also while a *)
(* message's traversal is suspended.                                       *)
(***************************************************************************)
dispatchVars == <<pc, message, prefix, ctx, order, pos, selected, checked, denied, executed, raised,
                  trail, flights>>

\* No registration call has raised.
NoError == [op |-> "none", exc |-> "none"]

\* ord(ch) of the characters of the handler names and first triggers.
ord(ch) ==
    CASE ch = "a" -> 97
      [] ch = "b" -> 98
      [] ch = "c" -> 99

\* a < b for two Python strings: the first differing character decides, and
\* a proper prefix is smaller.
RECURSIVE str_lt(_, _)
str_lt(a, b) ==
    IF b = <<>> THEN FALSE
    ELSE IF a = <<>> THEN TRUE
    ELSE IF Head(a) # Head(b) THEN ord(Head(a)) < ord(Head(b))
    ELSE str_lt(Tail(a), Tail(b))

\* One element put into a list kept in descending order of name: after the
\* elements whose name is not smaller (the sort is stable).
RECURSIVE insert_reverse(_, _)
insert_reverse(sorted, c) ==
    IF sorted = <<>> THEN <<c>>
    ELSE IF str_lt(Command_name(Head(sorted)), Command_name(c)) THEN <<c>> \o sorted
    ELSE <<Head(sorted)>> \o insert_reverse(Tail(sorted), c)

\* list.sort(key=lambda comm: comm.name, reverse=True)
RECURSIVE sort_by_name_reverse(_)
sort_by_name_reverse(seq) ==
    IF seq = <<>> THEN <<>>
    ELSE insert_reverse(sort_by_name_reverse(SubSeq(seq, 1, Len(seq) - 1)), seq[Len(seq)])

\* CommandCluster.bind_commands: the assertion that nothing is in
\* cluster_commands, then every Command member appended and the list sorted.
bind_commands(cl) ==
    /\ pc = "idle"
    /\ sum_len(binds, {Root} \cup ClusterInstances) < MaxBinds
    /\ IF cluster_commands[cl] # <<>>
       THEN /\ binds' = [binds EXCEPT ![cl] = Append(@, "ValueError")]
            /\ error' = [op |-> "bind_commands", exc |-> "ValueError"]
            /\ UNCHANGED cluster_commands
       ELSE /\ Size + Len(getmembers(cl)) <= MaxSize
            /\ cluster_commands' =
                   [cluster_commands EXCEPT ![cl] = sort_by_name_reverse(@ \o getmembers(cl))]
            /\ binds' = [binds EXCEPT ![cl] = Append(@, "ok")]
            /\ error' = NoError
    /\ UNCHANGED <<clusters, checks, dispatchVars>>
    /\ UNCHANGED <<respondVars, taskVars, eventVars, pureVars>>

\* A bug: the instance that is registered under the name is kept.
dict_set_keep(d, cluster) ==
    LET at == {i \in 1..Len(d) : class_name(d[i]) = class_name(cluster)}
    IN  IF at = {} THEN Append(d, cluster) ELSE d

\* self.clusters[cluster.__class__.__name__] = cluster: a new key goes to the
\* end of the dict, the value of a present key is replaced where the key is.
dict_set(d, cluster) ==
    LET at == {i \in 1..Len(d) : class_name(d[i]) = class_name(cluster)}
    IN  IF at = {} THEN Append(d, cluster)
        ELSE [i \in 1..Len(d) |-> IF i \in at THEN cluster ELSE d[i]]

\* CommandClient.register_cluster of a cluster instance.
register_cluster(cluster) ==
    /\ pc = "idle"
    /\ (\A i \in 1..Len(clusters) : class_name(clusters[i]) # class_name(cluster))
           => Size < MaxSize
    /\ clusters' = dict_set(clusters, cluster)
    /\ error' = NoError
    /\ UNCHANGED <<cluster_commands, checks, binds, dispatchVars>>
    /\ UNCHANGED <<respondVars, taskVars, eventVars, pureVars>>

\* CommandCluster.get_command_from_name: the commands of the cluster that have
\* a trigger the content starts with, each with that trigger, in list order.
RECURSIVE get_command_from_name_loop(_, _)
get_command_from_name_loop(cmds, content) ==
    IF cmds = <<>> THEN <<>>
    ELSE LET hit == command_check_prefix(Head(cmds), content)
         IN  (IF hit # <<>> THEN << <<Head(cmds), hit>> >> ELSE <<>>)
                 \o get_command_from_name_loop(Tail(cmds), content)

get_command_from_name(cl, content) == get_command_from_name_loop(cluster_commands[cl], content)

\* The triggers of command c for which register_command logs "Possible
\* overlapping trigger" in cluster cl.
overlapping(cl, c) ==
    {i \in 1..Len(triggers(c)) : get_command_from_name(cl, triggers(c)[i]) # <<>>}

\* A bug: a command with an overlapping trigger is rejected with ValueError.
register_command_reject_overlap(cl, c) ==
    /\ cl = Root \/ contains(clusters, cl)
    /\ Size < MaxSize
    /\ IF overlapping(cl, c) # {}
       THEN /\ error' = [op |-> "register_command", exc |-> "ValueError"]
            /\ UNCHANGED cluster_commands
       ELSE /\ cluster_commands' = [cluster_commands EXCEPT ![cl] = Append(@, c)]
            /\ error' = NoError
    /\ UNCHANGED <<clusters, checks, binds, dispatchVars>>
    /\ UNCHANGED <<respondVars, taskVars, eventVars, pureVars>>

\* CommandCluster.register_command of a command object: appended, not sorted.
register_command(cl, c) ==
    /\ cl = Root \/ contains(clusters, cl)
    /\ Size < MaxSize
    /\ cluster_commands' = [cluster_commands EXCEPT ![cl] = Append(@, c)]
    /\ error' = NoError
    /\ UNCHANGED <<clusters, checks, binds, dispatchVars>>
    /\ UNCHANGED <<respondVars, taskVars, eventVars, pureVars>>

\* CommandCluster.unregister_command: list.remove drops the first occurrence;
\* its ValueError for a command that is not in the list is raised anew.
unregister_command(cl, c) ==
    /\ IF contains(cluster_commands[cl], c)
       THEN /\ cluster_commands' = [cluster_commands EXCEPT ![cl] = remove(@, c)]
            /\ error' = NoError
       ELSE /\ error' = [op |-> "unregister_command", exc |-> "ValueError"]
            /\ UNCHANGED cluster_commands
    /\ UNCHANGED <<clusters, checks, binds, dispatchVars>>
    /\ UNCHANGED <<respondVars, taskVars, eventVars, pureVars>>

\* Command.register_check
register_check(c, p) ==
    /\ pc = "idle"
    /\ c \in Registered
    /\ Size < MaxSize
    /\ checks' = [checks EXCEPT ![c] = Append(@, p)]
    /\ UNCHANGED <<clusters, cluster_commands, binds, error, dispatchVars>>
    /\ UNCHANGED <<respondVars, taskVars, eventVars, pureVars>>

\* Command.deregister_check of a check of the command.
deregister_check(c, p) ==
    /\ pc = "idle"
    /\ c \in Registered
    /\ contains(checks[c], p)
    /\ p = PrefixCheck => Size < MaxSize
    /\ checks' = [checks EXCEPT ![c] = remove(@, p)]
    /\ UNCHANGED <<clusters, cluster_commands, binds, error, dispatchVars>>
    /\ UNCHANGED <<respondVars, taskVars, eventVars, pureVars>>

(***************************************************************************)
(* CommandClient.on_message_create, one step per command of the traversal. *)
(***************************************************************************)
\* A bug: a message without a prefix is handled as if its prefix were empty.
on_message_create_no_drop(msg) ==
    /\ pc = "idle"
    /\ message' = msg
    /\ prefix' = check_prefix(msg)
    /\ pc' = "traverse"
    /\ ctx' = Context(slice_from(msg.content, Len(prefix')))
    /\ order' = global_order
    /\ pos' = <<1, 1>>
    /\ UNCHANGED <<clusters, cluster_commands, checks, selected, checked, denied, executed,
                   raised, trail, binds, error, flights>>
    /\ UNCHANGED <<respondVars, taskVars, eventVars, pureVars>>

\* The start of on_message_create: prefix resolution and the Context.
on_message_create(msg) ==
    /\ pc = "idle"
    /\ message' = msg
    /\ prefix' = check_prefix(msg)
    /\ IF prefix' = <<>>
       THEN /\ pc' = "done"
            /\ UNCHANGED <<ctx, order, pos>>
       ELSE /\ pc' = "traverse"
            /\ ctx' = Context(slice_from(msg.content, Len(prefix')))
            /\ order' = global_order
            /\ pos' = <<1, 1>>
    /\ UNCHANGED <<clusters, cluster_commands, checks, selected, checked, denied, executed,
                   raised, trail, binds, error, flights>>
    /\ UNCHANGED <<respondVars, taskVars, eventVars, pureVars>>

\* A bug: the loop is left at the first command the access check refuses.
on_denied_return == [selected |-> NoCommand, pc |-> "done"]

\* The else branch of the access check in on_message_create: command_obj is
\* None again and the loop goes on with the next command.
on_denied == [selected |-> NoCommand, pc |-> "traverse"]

\* One iteration of the async for over get_global_command_from_context: the
\* next command's check, then access_check on a command that was yielded.
traverse ==
    /\ pc = "traverse"
    /\ LET p == seek(pos[1], pos[2])
       IN  IF p[1] > Len(order)
           THEN /\ pc' = "done"
                /\ selected' = NoCommand
                /\ pos' = p
                /\ UNCHANGED <<ctx, checked, denied>>
           ELSE LET c == cluster_commands[order[p[1]]][p[2]]
                    r == check(c, ctx)
                IN  /\ ctx' = r.ctx
                    /\ checked' = Append(checked, c)
                    /\ pos' = <<p[1], p[2] + 1>>
                    /\ IF r.result
                       THEN IF access_check(c, message)
                            THEN /\ selected' = c
                                 /\ pc' = "selected"
                                 /\ UNCHANGED denied
                            ELSE /\ selected' = on_denied.selected
                                 /\ pc' = on_denied.pc
                                 /\ denied' = Append(denied, c)
                       ELSE UNCHANGED <<selected, pc, denied>>
    /\ UNCHANGED <<clusters, cluster_commands, checks, message, prefix, order, executed, raised,
                   trail, binds, error, flights>>
    /\ UNCHANGED <<respondVars, taskVars, eventVars, pureVars>>

\* What the handler of a command (or the parsing of its arguments) does when
\* it is invoked: it returns, or raises CommandError or another Exception.
HandlerOutcomes == {"ok", "CommandError", "Exception"}

\* What ctx.reply does: it returns, or raises PermissionError or another error.
ReplyOutcomes == {"ok", "PermissionError", "BadRequestError"}

\* str(exc) of the CommandError the handlers raise.
Response == "response"

\* Command._cluster is set: c1 and c2 are bound to the cluster that holds
\* them, c3 is registered with bind=False.
bound(c) == c \in {"c1", "c2"}

\* Command._cluster of a bound command.
cluster_of(c) == CHOOSE cl \in DOMAIN cluster_commands : contains(cluster_commands[cl], c)

\* A bug: the exception is not re-raised after the ERROR event.
execute_body_swallow(c, cx, h, r) ==
    LET invoke == [step |-> "invoke", outcome |-> h]
    IN  CASE h = "ok" -> [trail |-> <<invoke>>, raised |-> "none"]
          [] h = "CommandError" ->
                [trail |-> <<invoke, [step |-> "reply", content |-> Response, outcome |-> r]>>,
                 raised |-> IF r \in {"ok", "PermissionError"} THEN "none" ELSE r]
          [] h = "Exception" ->
                [trail |-> IF bound(c)
                           THEN <<invoke, [step |-> "dispatch", cluster |-> cluster_of(c),
                                           event |-> "error", ctx |-> cx, exc |-> h]>>
                           ELSE <<invoke>>,
                 raised |-> IF bound(c) THEN "none" ELSE h]

\* A bug: PermissionError of the reply is not suppressed.
execute_body_no_suppress(c, cx, h, r) ==
    LET invoke == [step |-> "invoke", outcome |-> h]
    IN  CASE h = "ok" -> [trail |-> <<invoke>>, raised |-> "none"]
          [] h = "CommandError" ->
                [trail |-> <<invoke, [step |-> "reply", content |-> Response, outcome |-> r]>>,
                 raised |-> IF r = "ok" THEN "none" ELSE r]
          [] h = "Exception" ->
                [trail |-> IF bound(c)
                           THEN <<invoke, [step |-> "dispatch", cluster |-> cluster_of(c),
                                           event |-> "error", ctx |-> cx, exc |-> h],
                                  [step |-> "raise", exc |-> h]>>
                           ELSE <<invoke, [step |-> "raise", exc |-> h]>>,
                 raised |-> h]

\* Command.execute of command c with Context cx, when the handler does h and
\* the reply (if any) does r: the steps taken, and the exception that leaves.
execute_body(c, cx, h, r) ==
    LET invoke == [step |-> "invoke", outcome |-> h]
    IN  CASE h = "ok" -> [trail |-> <<invoke>>, raised |-> "none"]
          [] h = "CommandError" ->
                [trail |-> <<invoke, [step |-> "reply", content |-> Response, outcome |-> r]>>,
                 raised |-> IF r \in {"ok", "PermissionError"} THEN "none" ELSE r]
          [] h = "Exception" ->
                [trail |-> IF bound(c)
                           THEN <<invoke, [step |-> "dispatch", cluster |-> cluster_of(c),
                                           event |-> "error", ctx |-> cx, exc |-> h],
                                  [step |-> "raise", exc |-> h]>>
                           ELSE <<invoke, [step |-> "raise", exc |-> h]>>,
                 raised |-> h]

\* A bug: a command whose execution raised is taken out of its cluster.
execute_unregister_on_error ==
    /\ pc = "selected"
    /\ pc' = "done"
    /\ IF ~ctx.trigger_set
       THEN /\ raised' = "AttributeError"
            /\ UNCHANGED <<ctx, executed, trail, cluster_commands>>
       ELSE /\ ctx' = prune_content(ctx, Len(ctx.triggering_name) + 1)
            /\ executed' = Append(executed, <<selected, ctx'.content>>)
            /\ \E h \in HandlerOutcomes, r \in ReplyOutcomes :
                   LET x == execute_body(selected, ctx', h, r)
                   IN  /\ trail' = x.trail
                       /\ raised' = x.raised
                       /\ cluster_commands' =
                              IF x.raised = "none" THEN cluster_commands
                              ELSE [cluster_commands EXCEPT ![cluster_of(selected)] =
                                        remove(@, selected)]
    /\ UNCHANGED <<clusters, checks, message, prefix, order, pos, selected,
                   checked, denied, binds, error, flights>>
    /\ UNCHANGED <<respondVars, taskVars, eventVars, pureVars>>

\* The end of on_message_create: prune_content, then Command.execute.
execute ==
    /\ pc = "selected"
    /\ pc' = "done"
    /\ IF ~ctx.trigger_set
       THEN \* ctx.triggering_name is an unset slot
            /\ raised' = "AttributeError"
            /\ UNCHANGED <<ctx, executed, trail>>
       ELSE /\ ctx' = prune_content(ctx, Len(ctx.triggering_name) + 1)
            /\ executed' = Append(executed, <<selected, ctx'.content>>)
            /\ \E h \in HandlerOutcomes, r \in ReplyOutcomes :
                   LET x == execute_body(selected, ctx', h, r)
                   IN  /\ trail' = x.trail
                       /\ raised' = x.raised
    /\ UNCHANGED <<clusters, cluster_commands, checks, message, prefix, order, pos, selected,
                   checked, denied, binds, error, flights>>
    /\ UNCHANGED <<respondVars, taskVars, eventVars, pureVars>>

\* on_message_create has returned or raised; the next message can come.
return ==
    /\ pc = "done"
    /\ pc' = "idle"
    /\ message' = NoMessage
    /\ prefix' = <<>>
    /\ ctx' = NoContext
    /\ order' = <<>>
    /\ pos' = <<1, 1>>
    /\ selected' = NoCommand
    /\ checked' = <<>>
    /\ denied' = <<>>
    /\ executed' = <<>>
    /\ raised' = "none"
    /\ trail' = <<>>
    /\ UNCHANGED <<clusters, cluster_commands, checks, binds, error, flights>>
    /\ UNCHANGED <<respondVars, taskVars, eventVars, pureVars>>

(***************************************************************************)
(* Several messages in flight: every on_message_create call is a task of   *)
(* the event loop with locals of its own (message, prefix, ctx, the        *)
(* traversal's generator, command_obj); the tasks interleave at the awaits *)
(* of the traversal.                                                       *)
(***************************************************************************)
Flights == {"m1", "m2"}

\* The task runs no on_message_create call.
NoFlight ==
    [pc |-> "idle", message |-> NoMessage, ctx |-> NoContext, order |-> <<>>,
     pos |-> <<1, 1>>, selected |-> NoCommand, raised |-> "none"]

\* No message is in flight.
Quiet == pc = "idle" /\ \A t \in Flights : flights[t].pc = "idle"

\* seek for the traversal of a task: the generator state over its cluster
\* tuple.
RECURSIVE seek_in(_, _, _)
seek_in(clusterTuple, k, i) ==
    IF k > Len(clusterTuple) THEN <<k, i>>
    ELSE IF i > Len(cluster_commands[clusterTuple[k]]) THEN seek_in(clusterTuple, k + 1, 1)
    ELSE <<k, i>>

\* A bug: the Context is kept on the client, so the Context of a message that
\* comes in replaces the Context of the messages in flight.
flight_on_message_create_shared_ctx(t, msg) ==
    /\ flights[t].pc = "idle"
    /\ LET found == check_prefix(msg)
           new == Context(slice_from(msg.content, Len(found)))
       IN  flights' =
               IF found = <<>>
               THEN [flights EXCEPT ![t] = [NoFlight EXCEPT !.pc = "done", !.message = msg]]
               ELSE [u \in Flights |->
                        IF u = t
                        THEN [NoFlight EXCEPT !.pc = "traverse", !.message = msg, !.ctx = new,
                                              !.order = global_order]
                        ELSE IF flights[u].pc \in {"traverse", "selected"}
                        THEN [flights[u] EXCEPT !.ctx = new]
                        ELSE flights[u]]
    /\ UNCHANGED <<clusters, cluster_commands, checks, pc, message, prefix, ctx, order, pos,
                   selected, checked, denied, executed, raised, trail, binds, error>>
    /\ UNCHANGED <<respondVars, taskVars, eventVars, pureVars>>

\* The start of on_message_create in task t: prefix resolution and a new
\* Context, a local of the call.
flight_on_message_create(t, msg) ==
    /\ flights[t].pc = "idle"
    /\ LET found == check_prefix(msg)
       IN  flights' = [flights EXCEPT ![t] =
               IF found = <<>>
               THEN [NoFlight EXCEPT !.pc = "done", !.message = msg]
               ELSE [NoFlight EXCEPT !.pc = "traverse", !.message = msg,
                                     !.ctx = Context(slice_from(msg.content, Len(found))),
                                     !.order = global_order]]
    /\ UNCHANGED <<clusters, cluster_commands, checks, pc, message, prefix, ctx, order, pos,
                   selected, checked, denied, executed, raised, trail, binds, error>>
    /\ UNCHANGED <<respondVars, taskVars, eventVars, pureVars>>

\* One iteration of the async for in task t.
flight_traverse(t) ==
    /\ flights[t].pc = "traverse"
    /\ LET f == flights[t]
           p == seek_in(f.order, f.pos[1], f.pos[2])
       IN  IF p[1] > Len(f.order)
           THEN flights' = [flights EXCEPT ![t] = [f EXCEPT !.pc = "done", !.pos = p]]
           ELSE LET c == cluster_commands[f.order[p[1]]][p[2]]
                    r == check(c, f.ctx)
                    g == [f EXCEPT !.ctx = r.ctx, !.pos = <<p[1], p[2] + 1>>]
                IN  flights' = [flights EXCEPT ![t] =
                        IF r.result
                        THEN IF access_check(c, f.message)
                             THEN [g EXCEPT !.selected = c, !.pc = "selected"]
                             ELSE [g EXCEPT !.selected = on_denied.selected, !.pc = on_denied.pc]
                        ELSE g]
    /\ UNCHANGED <<clusters, cluster_commands, checks, pc, message, prefix, ctx, order, pos,
                   selected, checked, denied, executed, raised, trail, binds, error>>
    /\ UNCHANGED <<respondVars, taskVars, eventVars, pureVars>>

\* The end of on_message_create in task t: prune_content, then Command.execute.
flight_execute(t) ==
    /\ flights[t].pc = "selected"
    /\ LET f == flights[t]
       IN  IF ~f.ctx.trigger_set
           THEN flights' = [flights EXCEPT ![t] = [f EXCEPT !.pc = "done", !.raised = "AttributeError"]]
           ELSE LET cx == prune_content(f.ctx, Len(f.ctx.triggering_name) + 1)
                IN  \E h \in HandlerOutcomes, r \in ReplyOutcomes :
                        flights' = [flights EXCEPT ![t] =
                            [f EXCEPT !.pc = "done", !.ctx = cx,
                                      !.raised = execute_body(f.selected, cx, h, r).raised]]
    /\ UNCHANGED <<clusters, cluster_commands, checks, pc, message, prefix, ctx, order, pos,
                   selected, checked, denied, executed, raised, trail, binds, error>>
    /\ UNCHANGED <<respondVars, taskVars, eventVars, pureVars>>

\* The call of task t has returned or raised; its locals are gone.
flight_return(t) ==
    /\ flights[t].pc = "done"
    /\ flights' = [flights EXCEPT ![t] = NoFlight]
    /\ UNCHANGED <<clusters, cluster_commands, checks, pc, message, prefix, ctx, order, pos,
                   selected, checked, denied, executed, raised, trail, binds, error>>
    /\ UNCHANGED <<respondVars, taskVars, eventVars, pureVars>>

(***************************************************************************)
(* The Backoff iterator (yuyo.backoff.Backoff) that the retry loops drive. *)
(***************************************************************************)
\* max_retries of backoff.Backoff(max_retries=5) in HikariErrorManager.__init__
DefaultMaxRetries == 5

\* max_retries of backoff.Backoff(max_retries=5) in on_error and on_parser_error
HookMaxRetries == 5

\* No next backoff is set (None).
NoBackoff == -1

\* Backoff.__init__
Backoff(max_retries) ==
    [max_retries |-> max_retries, retries |-> 0, finished |-> FALSE,
     next_backoff |-> NoBackoff, started |-> FALSE, increment |-> 0]

\* Backoff.finish
finish(b) == [b EXCEPT !.finished = TRUE]

\* Backoff.reset
reset(b) ==
    [b EXCEPT !.retries = 0, !.finished = FALSE, !.next_backoff = NoBackoff,
              !.started = FALSE, !.increment = 0]

\* Backoff.set_next_backoff
set_next_backoff(b, seconds) == [b EXCEPT !.next_backoff = seconds]

\* The capped exponential delay of the n-th normal sleep (n from 0).
growth(n) == IF 2 ^ n >= 64 THEN 64 ELSE 2 ^ n

\* Backoff.__anext__: the end of the sequence, or a permit after the sleep (if
\* any); slept is the delay slept, NoBackoff for the immediate first permit.
anext(b) ==
    IF b.finished \/ b.retries >= b.max_retries
    THEN [stop |-> TRUE, slept |-> NoBackoff, backoff |-> b]
    ELSE IF ~b.started
    THEN [stop |-> FALSE, slept |-> NoBackoff,
          backoff |-> [b EXCEPT !.started = TRUE, !.retries = @ + 1]]
    ELSE IF b.next_backoff # NoBackoff
    THEN [stop |-> FALSE, slept |-> b.next_backoff,
          backoff |-> [b EXCEPT !.retries = @ + 1, !.next_backoff = NoBackoff]]
    ELSE [stop |-> FALSE, slept |-> growth(b.increment),
          backoff |-> [b EXCEPT !.retries = @ + 1, !.increment = @ + 1]]

(***************************************************************************)
(* HikariErrorManager.                                                     *)
(***************************************************************************)
InternalServerError == "InternalServerError"
RateLimitedError == "RateLimitedError"

\* The exception types a respond call raises in the model.
Kinds == {InternalServerError, RateLimitedError, "NotFoundError", "ForbiddenError", "ValueError"}

\* The exceptions: a RateLimitedError carries retry_after.
Exceptions ==
    [kind : Kinds \ {RateLimitedError}, retry_after : {0}]
        \cup [kind : {RateLimitedError}, retry_after : {3, 10, 15}]

NoException == [kind |-> "none", retry_after |-> 0]

\* The break_on arguments a manager is built with or cleared to.
BreakOns ==
    { {}, {"ForbiddenError", "NotFoundError"},
      {InternalServerError}, {RateLimitedError, "NotFoundError"} }

\* break_on of the managers that on_error and on_parser_error build
HookBreakOn == {"ForbiddenError", "NotFoundError"}

\* The longest retry_after that is still waited for.
MaxRetryAfter == 10

\* A bug: the Backoff is not finished.
_on_break_on_unfinished(b, exception) == [result |-> FALSE, backoff |-> b]

\* HikariErrorManager._on_break_on
_on_break_on(b, exception) == [result |-> FALSE, backoff |-> finish(b)]

\* A bug: the rule lets the exception through.
_on_internal_server_error_raise(b, exception) == [result |-> TRUE, backoff |-> b]

\* HikariErrorManager._on_internal_server_error
_on_internal_server_error(b, exception) == [result |-> FALSE, backoff |-> b]

\* A bug: the next backoff is not set.
_on_rate_limited_error_no_override(b, exception) ==
    [result |-> exception.retry_after > MaxRetryAfter, backoff |-> b]

\* A bug: a long retry_after is suppressed like a short one is.
_on_rate_limited_error_suppress_long(b, exception) ==
    IF exception.retry_after > MaxRetryAfter
    THEN [result |-> FALSE, backoff |-> b]
    ELSE [result |-> FALSE, backoff |-> set_next_backoff(b, exception.retry_after)]

\* A bug: the result of the comparison is returned in both branches.
_on_rate_limited_error_raise_short(b, exception) ==
    IF exception.retry_after > MaxRetryAfter
    THEN [result |-> TRUE, backoff |-> b]
    ELSE [result |-> TRUE, backoff |-> set_next_backoff(b, exception.retry_after)]

\* HikariErrorManager._on_rate_limited_error
_on_rate_limited_error(b, exception) ==
    IF exception.retry_after > MaxRetryAfter
    THEN [result |-> TRUE, backoff |-> b]
    ELSE [result |-> FALSE, backoff |-> set_next_backoff(b, exception.retry_after)]

\* A bug: an empty break_on registers the break rule for every exception.
clear_rules_break_on_all(break_on) ==
    << [kinds |-> {InternalServerError}, callback |-> "_on_internal_server_error"],
       [kinds |-> {RateLimitedError}, callback |-> "_on_rate_limited_error"],
       [kinds |-> IF break_on # {} THEN break_on ELSE Kinds, callback |-> "_on_break_on"] >>

\* A bug: the break_on rule is registered before the two others.
clear_rules_break_on_first(break_on) ==
    (IF break_on # {}
     THEN << [kinds |-> break_on, callback |-> "_on_break_on"] >>
     ELSE <<>>)
        \o << [kinds |-> {InternalServerError}, callback |-> "_on_internal_server_error"],
              [kinds |-> {RateLimitedError}, callback |-> "_on_rate_limited_error"] >>

\* HikariErrorManager.clear_rules: the rules, in the order of the with_rule calls.
clear_rules(break_on) ==
    << [kinds |-> {InternalServerError}, callback |-> "_on_internal_server_error"],
       [kinds |-> {RateLimitedError}, callback |-> "_on_rate_limited_error"] >>
        \o (IF break_on # {}
            THEN << [kinds |-> break_on, callback |-> "_on_break_on"] >>
            ELSE <<>>)

\* The call of a rule's callback.
call_rule(callback, b, exception) ==
    CASE callback = "_on_internal_server_error" -> _on_internal_server_error(b, exception)
      [] callback = "_on_rate_limited_error" -> _on_rate_limited_error(b, exception)
      [] callback = "_on_break_on" -> _on_break_on(b, exception)

\* ErrorManager.__exit__ (yuyo.backoff) with an exception: the first rule that
\* names the exception's type decides; a callback result of True lets the
\* exception through, False suppresses it; with no rule the exception goes
\* through.  The rule callbacks of rest_manager.py rely on this reading: they
\* return False after set_next_backoff (retry after the hint) and after finish
\* (leave the loop quietly), and True for what they do not classify.
error_manager_exit(rules, b, exception) ==
    LET hits == {i \in 1..Len(rules) : exception.kind \in rules[i].kinds}
    IN  IF hits = {}
        THEN [suppress |-> FALSE, backoff |-> b]
        ELSE LET first == CHOOSE i \in hits : \A j \in hits : i <= j
                 r == call_rule(rules[first].callback, b, exception)
             IN  [suppress |-> ~r.result, backoff |-> r.backoff]

\* No try_respond call is running, or the one that is found the Backoff
\* neither used up nor finished.
NotReused == [exhausted |-> FALSE, finished |-> FALSE]

Hooks == {"on_error", "on_parser_error"}

\* The rules and the Backoff of the retry loop that is running.
loop_rules == IF caller \in Hooks THEN clear_rules(HookBreakOn) ELSE manager.rules
loop_backoff == IF caller \in Hooks THEN retry ELSE backoff_handler

\* HikariErrorManager.__init__ with the default Backoff
HikariErrorManager_init(break_on) ==
    /\ ~manager.built
    /\ rpc = "idle"
    /\ backoff_handler' = Backoff(DefaultMaxRetries)
    /\ manager' = [built |-> TRUE, break_on |-> break_on, rules |-> clear_rules(break_on)]
    /\ UNCHANGED <<retry, caller, rpc, log, propagated, reused, routerVars, taskVars, eventVars, pureVars>>

\* HikariErrorManager.clear_rules called on a built manager
manager_clear_rules(break_on) ==
    /\ manager.built
    /\ rpc = "idle"
    /\ manager' = [manager EXCEPT !.break_on = break_on, !.rules = clear_rules(break_on)]
    /\ UNCHANGED <<backoff_handler, retry, caller, rpc, log, propagated, reused, routerVars, taskVars, eventVars, pureVars>>

\* A bug: the Backoff is not reset; the call goes on where the last one ended.
try_respond_no_reset ==
    /\ manager.built
    /\ rpc = "idle"
    /\ backoff_handler' = backoff_handler
    /\ reused' = [exhausted |-> backoff_handler.retries >= backoff_handler.max_retries,
                  finished |-> backoff_handler.finished]
    /\ caller' = "try_respond"
    /\ rpc' = "iter"
    /\ UNCHANGED <<manager, retry, log, propagated, routerVars, taskVars, eventVars, pureVars>>

\* HikariErrorManager.try_respond up to its loop: the Backoff is reset.
try_respond ==
    /\ manager.built
    /\ rpc = "idle"
    /\ backoff_handler' = reset(backoff_handler)
    /\ reused' = [exhausted |-> backoff_handler.retries >= backoff_handler.max_retries,
                  finished |-> backoff_handler.finished]
    /\ caller' = "try_respond"
    /\ rpc' = "iter"
    /\ UNCHANGED <<manager, retry, log, propagated, routerVars, taskVars, eventVars, pureVars>>

\* A bug: the hook's Backoff permits one attempt more.
error_hook_one_more(h) ==
    /\ rpc = "idle"
    /\ retry' = Backoff(HookMaxRetries + 1)
    /\ caller' = h
    /\ rpc' = "iter"
    /\ UNCHANGED <<manager, backoff_handler, log, propagated, reused, routerVars, taskVars, eventVars, pureVars>>

\* on_error and on_parser_error up to their loop: a new Backoff and manager.
error_hook(h) ==
    /\ rpc = "idle"
    /\ retry' = Backoff(HookMaxRetries)
    /\ caller' = h
    /\ rpc' = "iter"
    /\ UNCHANGED <<manager, backoff_handler, log, propagated, reused, routerVars, taskVars, eventVars, pureVars>>

\* A bug: the exhausted Backoff does not end the loop; it is awaited again.
loop_next_no_stop ==
    /\ rpc = "iter"
    /\ LET r == anext(loop_backoff)
       IN  /\ IF caller \in Hooks
              THEN retry' = r.backoff /\ UNCHANGED backoff_handler
              ELSE backoff_handler' = r.backoff /\ UNCHANGED retry
           /\ IF r.stop
              THEN rpc' = "iter" /\ UNCHANGED log
              ELSE /\ rpc' = "attempt"
                   /\ log' = IF r.slept = NoBackoff THEN log
                             ELSE Append(log, [ev |-> "sleep", kind |-> "none", n |-> r.slept])
    /\ UNCHANGED <<manager, caller, propagated, reused, routerVars, taskVars, eventVars, pureVars>>

\* async for _ in backoff: the next permit, after the sleep, or the loop's end.
loop_next ==
    /\ rpc = "iter"
    /\ LET r == anext(loop_backoff)
       IN  /\ IF caller \in Hooks
              THEN retry' = r.backoff /\ UNCHANGED backoff_handler
              ELSE backoff_handler' = r.backoff /\ UNCHANGED retry
           /\ IF r.stop
              THEN rpc' = "returned" /\ UNCHANGED log
              ELSE /\ rpc' = "attempt"
                   /\ log' = IF r.slept = NoBackoff THEN log
                             ELSE Append(log, [ev |-> "sleep", kind |-> "none", n |-> r.slept])
    /\ UNCHANGED <<manager, caller, propagated, reused, routerVars, taskVars, eventVars, pureVars>>

\* A bug: the break after the successful call is missing.
respond_ok_no_break ==
    /\ rpc = "attempt"
    /\ log' = Append(log, [ev |-> "ok", kind |-> "none", n |-> 0])
    /\ rpc' = "iter"
    /\ UNCHANGED <<manager, backoff_handler, retry, caller, propagated, reused, routerVars, taskVars, eventVars, pureVars>>

\* with error_manager: await ctx.respond(...); break -- the call succeeds.
respond_ok ==
    /\ rpc = "attempt"
    /\ log' = Append(log, [ev |-> "ok", kind |-> "none", n |-> 0])
    /\ rpc' = "returned"
    /\ UNCHANGED <<manager, backoff_handler, retry, caller, propagated, reused, routerVars, taskVars, eventVars, pureVars>>

\* with error_manager: await ctx.respond(...) -- the call raises.
respond_raises(exception) ==
    /\ rpc = "attempt"
    /\ log' = Append(log, [ev |-> "fail", kind |-> exception.kind, n |-> exception.retry_after])
    /\ LET x == error_manager_exit(loop_rules, loop_backoff, exception)
       IN  /\ IF caller \in Hooks
              THEN retry' = x.backoff /\ UNCHANGED backoff_handler
              ELSE backoff_handler' = x.backoff /\ UNCHANGED retry
           /\ IF x.suppress
              THEN rpc' = "iter" /\ UNCHANGED propagated
              ELSE rpc' = "raised" /\ propagated' = exception
    /\ UNCHANGED <<manager, caller, reused, routerVars, taskVars, eventVars, pureVars>>

\* The break_on argument of the manager of the retry loop that is running.
loop_break_on == IF caller \in Hooks THEN HookBreakOn ELSE manager.break_on

\* The call has returned or raised; its locals are gone.
loop_end ==
    /\ rpc \in {"returned", "raised"}
    /\ rpc' = "idle"
    /\ caller' = "none"
    /\ retry' = Backoff(0)
    /\ log' = <<>>
    /\ propagated' = NoException
    /\ reused' = NotReused
    /\ UNCHANGED <<manager, backoff_handler, routerVars, taskVars, eventVars, pureVars>>

(***************************************************************************)
(* AIOHTTPStatusHandler: the rule of an ErrorManager for the response      *)
(* errors of aiohttp, evaluated on its own.                                *)
(***************************************************************************)
\* The status from which a response error is a server error.
ServerErrorFloor == 500

\* The status of a rate limit.
TooManyRequests == 429

\* The status on_404 is for.
NotFound == 404

\* The longest Retry-After that is still waited for.
MaxRetryAfterHeader == 10

\* The name of the header that carries the hint.
RetryAfter == "Retry-After"

\* exception.headers: None, or a mapping given as its set of <<name, value>>.
NoHeaders == {<<"None", <<>>>>}

\* What a callback that ends by raising leaves for ErrorManager.__exit__.
Raise(exc, text, b) ==
    [raised |-> exc, message |-> text, result |-> FALSE, backoff |-> b, on_404_calls |-> 0]

\* What a callback that returns leaves: its result, the Backoff, and how
\* often it called the on_404 callable.
Return(res, b, n) ==
    [raised |-> "none", message |-> "", result |-> res, backoff |-> b, on_404_calls |-> n]

\* The value of a decimal digit.
digit(ch) ==
    CASE ch = "0" -> 0
      [] ch = "1" -> 1
      [] ch = "3" -> 3
      [] ch = "5" -> 5
      [] OTHER -> -1

\* float(raw) accepts the string: here, a non-empty string of digits.
is_number(raw) == raw # <<>> /\ \A i \in 1..Len(raw) : digit(raw[i]) >= 0

\* float(raw) of such a string.
RECURSIVE float(_)
float(raw) ==
    IF raw = <<>> THEN 0
    ELSE 10 * float(SubSeq(raw, 1, Len(raw) - 1)) + digit(raw[Len(raw)])

\* exception.headers.get("Retry-After") if exception.headers else None; an
\* absent header is given as "None".
raw_retry_after(headers) ==
    IF headers = NoHeaders \/ headers = {} THEN "None"
    ELSE IF \E h \in headers : h[1] = RetryAfter
    THEN (CHOOSE h \in headers : h[1] = RetryAfter)[2]
    ELSE "None"

\* A bug: break_on is tested after the status rules, so it decides only the
\* statuses they leave.
_on_client_response_error_break_on_last(handler, b, exception) ==
    IF exception.status >= ServerErrorFloor THEN Return(FALSE, b, 0)
    ELSE IF exception.status = TooManyRequests
    THEN LET raw == raw_retry_after(exception.headers)
         IN  IF raw = "None" THEN Return(FALSE, b, 0)
             ELSE IF ~is_number(raw) THEN Raise("ValueError", "", b)
             ELSE IF float(raw) <= MaxRetryAfterHeader
             THEN Return(FALSE, set_next_backoff(b, float(raw)), 0)
             ELSE Return(FALSE, b, 0)
    ELSE IF handler.on_404.kind # "None" /\ exception.status = NotFound
    THEN IF handler.on_404.kind = "str"
         THEN Raise("CommandError", handler.on_404.text, b)
         ELSE Return(TRUE, b, 1)
    ELSE IF exception.status \in handler.break_on THEN Return(FALSE, finish(b), 0)
    ELSE Return(TRUE, b, 0)

\* A bug: a configured on_404 string is ignored.
_on_client_response_error_no_404(handler, b, exception) ==
    IF exception.status \in handler.break_on THEN Return(FALSE, finish(b), 0)
    ELSE IF exception.status >= ServerErrorFloor THEN Return(FALSE, b, 0)
    ELSE IF exception.status = TooManyRequests
    THEN LET raw == raw_retry_after(exception.headers)
         IN  IF raw = "None" THEN Return(FALSE, b, 0)
             ELSE IF ~is_number(raw) THEN Raise("ValueError", "", b)
             ELSE IF float(raw) <= MaxRetryAfterHeader
             THEN Return(FALSE, set_next_backoff(b, float(raw)), 0)
             ELSE Return(FALSE, b, 0)
    ELSE IF handler.on_404.kind # "None" /\ exception.status = NotFound
    THEN IF handler.on_404.kind = "str"
         THEN Return(TRUE, b, 0)
         ELSE Return(TRUE, b, 1)
    ELSE Return(TRUE, b, 0)

\* AIOHTTPStatusHandler._on_client_response_error, the one rule of the
\* handler, for the Backoff b it was built with.
_on_client_response_error(handler, b, exception) ==
    IF exception.status \in handler.break_on THEN Return(FALSE, finish(b), 0)
    ELSE IF exception.status >= ServerErrorFloor THEN Return(FALSE, b, 0)
    ELSE IF exception.status = TooManyRequests
    THEN LET raw == raw_retry_after(exception.headers)
         IN  IF raw = "None" THEN Return(FALSE, b, 0)
             ELSE IF ~is_number(raw) THEN Raise("ValueError", "", b)
             ELSE IF float(raw) <= MaxRetryAfterHeader
             THEN Return(FALSE, set_next_backoff(b, float(raw)), 0)
             ELSE Return(FALSE, b, 0)
    ELSE IF handler.on_404.kind # "None" /\ exception.status = NotFound
    THEN IF handler.on_404.kind = "str"
         THEN Raise("CommandError", handler.on_404.text, b)
         ELSE Return(TRUE, b, 1)
    ELSE Return(TRUE, b, 0)

\* AIOHTTPStatusHandler.__init__ / clear_rules with break_on and on_404, and
\* then its rule called with a response error.
AIOHTTPStatusHandler(break_on, on_404, b, exception) ==
    LET handler == [break_on |-> break_on, on_404 |-> on_404]
    IN  /\ call' = [fn |-> "AIOHTTPStatusHandler._on_client_response_error",
                    handler |-> handler, backoff |-> b, exception |-> exception]
        /\ returned' = _on_client_response_error(handler, b, exception)
        /\ UNCHANGED <<routerVars, respondVars, taskVars, eventVars>>

(***************************************************************************)
(* Concurrent retry loops: tasks of one event loop that run try_respond on *)
(* the one HikariErrorManager, or an error hook, and interleave at their   *)
(* awaits (the backoff sleep and the respond call).                        *)
(***************************************************************************)
Tasks == {"t1", "t2"}

\* The exceptions a respond call raises in the concurrent runs.
TaskExceptions ==
    { [kind |-> InternalServerError, retry_after |-> 0],
      [kind |-> RateLimitedError, retry_after |-> 3],
      [kind |-> "NotFoundError", retry_after |-> 0] }

\* asyncio.CancelledError, thrown into the awaiting task.
CancelledError == [kind |-> "CancelledError", retry_after |-> 0]

\* The rules, the Backoff and the break_on of the loop task t runs.
task_rules(t) == IF tcaller[t] \in Hooks THEN clear_rules(HookBreakOn) ELSE manager.rules
task_backoff(t) == IF tcaller[t] \in Hooks THEN tretry[t] ELSE backoff_handler

\* The task is inside a retry loop.
InFlight(t) == tpc[t] \in {"iter", "sleep", "attempt"}

\* HikariErrorManager.try_respond up to its loop, run by task t.
task_try_respond(t) ==
    /\ manager.built
    /\ tpc[t] = "idle"
    /\ calls < MaxCalls
    /\ calls' = calls + 1
    /\ backoff_handler' = reset(backoff_handler)
    /\ tcaller' = [tcaller EXCEPT ![t] = "try_respond"]
    /\ tpc' = [tpc EXCEPT ![t] = "iter"]
    /\ UNCHANGED <<manager, retry, caller, rpc, log, propagated, reused, tretry, tcancelled, tprop, routerVars, eventVars, pureVars>>

\* on_error and on_parser_error up to their loop, run by task t.
task_error_hook(t, h) ==
    /\ tpc[t] = "idle"
    /\ calls < MaxCalls
    /\ calls' = calls + 1
    /\ tretry' = [tretry EXCEPT ![t] = Backoff(HookMaxRetries)]
    /\ tcaller' = [tcaller EXCEPT ![t] = h]
    /\ tpc' = [tpc EXCEPT ![t] = "iter"]
    /\ UNCHANGED <<respondVars, tcancelled, tprop, routerVars, eventVars, pureVars>>

\* The Backoff of task t's loop becomes b.
set_task_backoff(t, b) ==
    IF tcaller[t] \in Hooks
    THEN tretry' = [tretry EXCEPT ![t] = b] /\ UNCHANGED backoff_handler
    ELSE backoff_handler' = b /\ UNCHANGED tretry

\* async for _ in backoff, task t: the loop's end, the immediate first permit,
\* or the start of the sleep before the next permit.
task_next(t) ==
    /\ tpc[t] = "iter"
    /\ LET r == anext(task_backoff(t))
       IN  /\ set_task_backoff(t, r.backoff)
           /\ IF r.stop
              THEN tpc' = [tpc EXCEPT ![t] = "returned"]
              ELSE IF r.slept = NoBackoff
              THEN tpc' = [tpc EXCEPT ![t] = "attempt"]
              ELSE tpc' = [tpc EXCEPT ![t] = "sleep"]
    /\ UNCHANGED <<manager, retry, caller, rpc, log, propagated, reused, tcaller, tcancelled, tprop,
                   calls, routerVars, eventVars, pureVars>>

\* The sleep of task t is over: the permit is given.
task_wake(t) ==
    /\ tpc[t] = "sleep"
    /\ tpc' = [tpc EXCEPT ![t] = "attempt"]
    /\ UNCHANGED <<respondVars, tcaller, tretry, tcancelled, tprop, calls, routerVars, eventVars, pureVars>>

\* A bug: the cancellation is caught and the loop goes on.
task_cancel_swallowed(t) ==
    /\ tpc[t] = "sleep"
    /\ tcancelled' = [tcancelled EXCEPT ![t] = TRUE]
    /\ tpc' = [tpc EXCEPT ![t] = "attempt"]
    /\ UNCHANGED <<respondVars, tcaller, tretry, tprop, calls, routerVars, eventVars, pureVars>>

\* Task t is cancelled inside the sleep: CancelledError is raised in the
\* async for statement, outside the with block.
task_cancel(t) ==
    /\ tpc[t] = "sleep"
    /\ tcancelled' = [tcancelled EXCEPT ![t] = TRUE]
    /\ tpc' = [tpc EXCEPT ![t] = "raised"]
    /\ tprop' = [tprop EXCEPT ![t] = CancelledError]
    /\ UNCHANGED <<respondVars, tcaller, tretry, calls, routerVars, eventVars, pureVars>>

\* with error_manager: await ctx.respond(...); break -- task t's call succeeds.
task_ok(t) ==
    /\ tpc[t] = "attempt"
    /\ tpc' = [tpc EXCEPT ![t] = "returned"]
    /\ UNCHANGED <<respondVars, tcaller, tretry, tcancelled, tprop, calls, routerVars, eventVars, pureVars>>

\* with error_manager: await ctx.respond(...) -- task t's call raises.
task_raises(t, exception) ==
    /\ tpc[t] = "attempt"
    /\ LET x == error_manager_exit(task_rules(t), task_backoff(t), exception)
       IN  /\ set_task_backoff(t, x.backoff)
           /\ IF x.suppress
              THEN tpc' = [tpc EXCEPT ![t] = "iter"] /\ UNCHANGED tprop
              ELSE /\ tpc' = [tpc EXCEPT ![t] = "raised"]
                   /\ tprop' = [tprop EXCEPT ![t] = exception]
    /\ UNCHANGED <<manager, retry, caller, rpc, log, propagated, reused, tcaller, tcancelled, calls,
                   routerVars, eventVars, pureVars>>

\* Task t's call has returned or raised; its locals are gone.
task_end(t) ==
    /\ tpc[t] \in {"returned", "raised"}
    /\ tpc' = [tpc EXCEPT ![t] = "idle"]
    /\ tcaller' = [tcaller EXCEPT ![t] = "none"]
    /\ tretry' = [tretry EXCEPT ![t] = Backoff(0)]
    /\ tcancelled' = [tcancelled EXCEPT ![t] = FALSE]
    /\ tprop' = [tprop EXCEPT ![t] = NoException]
    /\ UNCHANGED <<respondVars, calls, routerVars, eventVars, pureVars>>

\* The break_on arguments of the manager the tasks share.
TaskBreakOns == {{}, {"NotFoundError"}}

TaskInit ==
    /\ tcaller = [t \in Tasks |-> "none"]
    /\ tpc = [t \in Tasks |-> "idle"]
    /\ tretry = [t \in Tasks |-> Backoff(0)]
    /\ tcancelled = [t \in Tasks |-> FALSE]
    /\ tprop = [t \in Tasks |-> NoException]
    /\ calls = 0

(***************************************************************************)
(* Cluster events: add_cluster_event and dispatch_cluster_event.           *)
(***************************************************************************)
\* The clusters whose events the runs use.
EventClusters == {Root, "A"}

\* Event names as callers give them: a CommandEvents member or a plain string.
EventNames == {"CommandEvents.ERROR", "error", "load"}

\* str(event): CommandEvents.__str__ returns the member's value.
str(event) ==
    CASE event = "CommandEvents.ERROR" -> "error"
      [] OTHER -> event

\* The coroutine functions subscribed as listeners.
Listeners == {"l1", "l2"}

\* What a listener does when it is invoked.
ListenerOutcomes == {"ok", "raise"}

\* EventDelegate.dispatch: every listener added under the name is invoked, in
\* the order added; outs gives what each of them does.
delegate_dispatch(d, name, outs) ==
    LET hits == SelectSeq(d, LAMBDA e : e[1] = name)
    IN  [i \in 1..Len(hits) |-> [listener |-> hits[i][2], outcome |-> outs[i]]]

\* A bug: the listener is added under the event name as it was given.
add_cluster_event_raw(cl, event_name, l) ==
    /\ Len(subscribed) < MaxListeners
    /\ delegate' = [delegate EXCEPT ![cl] = Append(@, <<event_name, l>>)]
    /\ subscribed' = Append(subscribed, [cluster |-> cl, event_name |-> event_name, listener |-> l])
    /\ UNCHANGED <<dispatched, invoked, routerVars, respondVars, taskVars, pureVars>>

\* CommandCluster.add_cluster_event
add_cluster_event(cl, event_name, l) ==
    /\ Len(subscribed) < MaxListeners
    /\ delegate' = [delegate EXCEPT ![cl] = Append(@, <<str(event_name), l>>)]
    /\ subscribed' = Append(subscribed, [cluster |-> cl, event_name |-> event_name, listener |-> l])
    /\ UNCHANGED <<dispatched, invoked, routerVars, respondVars, taskVars, pureVars>>

\* CommandCluster.dispatch_cluster_event
dispatch_cluster_event(cl, event) ==
    /\ dispatched' = <<cl, event, Len(subscribed)>>
    /\ \E outs \in [1..Len(delegate[cl]) -> ListenerOutcomes] :
           invoked' = delegate_dispatch(delegate[cl], str(event), outs)
    /\ UNCHANGED <<delegate, subscribed, routerVars, respondVars, taskVars, pureVars>>

EventInit ==
    /\ delegate = [cl \in EventClusters |-> <<>>]
    /\ subscribed = <<>>
    /\ dispatched = <<>>
    /\ invoked = <<>>

vars == <<routerVars, respondVars, taskVars, eventVars, pureVars>>

PureInit ==
    /\ call = NoCall
    /\ returned = None

RespondInit ==
    /\ manager = [built |-> FALSE, break_on |-> {}, rules |-> <<>>]
    /\ backoff_handler = Backoff(0)
    /\ retry = Backoff(0)
    /\ caller = "none"
    /\ rpc = "idle"
    /\ log = <<>>
    /\ propagated = NoException
    /\ reused = NotReused

RouterInit ==
    /\ clusters = <<>>
    /\ cluster_commands = [cl \in {Root} \cup ClusterInstances |-> <<>>]
    /\ checks = [c \in CommandIds |-> <<PrefixCheck>>]
    /\ pc = "idle"
    /\ message = NoMessage
    /\ prefix = <<>>
    /\ ctx = NoContext
    /\ order = <<>>
    /\ pos = <<1, 1>>
    /\ selected = NoCommand
    /\ checked = <<>>
    /\ denied = <<>>
    /\ executed = <<>>
    /\ raised = "none"
    /\ trail = <<>>
    /\ binds = [cl \in {Root} \cup ClusterInstances |-> <<>>]
    /\ error = NoError
    /\ flights = [t \in Flights |-> NoFlight]

Init == RouterInit /\ RespondInit /\ TaskInit /\ EventInit /\ PureInit

Next ==
    \/ \E name \in ClusterNames : register_cluster(name)
    \/ pc = "idle" /\ \E cl \in {Root} \cup ClusterNames, c \in CommandIds \ Registered :
                        register_command(cl, c)
    \/ pc = "idle" /\ \E cl \in {Root} \cup ClusterNames :
                        \E c \in {x \in CommandIds : contains(cluster_commands[cl], x)} :
                            unregister_command(cl, c)
    \/ \E c \in CommandIds, p \in Outcomes : register_check(c, p)
    \/ \E c \in CommandIds, p \in Outcomes \cup {PrefixCheck} : deregister_check(c, p)
    \/ \E msg \in Messages : on_message_create(msg)
    \/ traverse
    \/ execute
    \/ return

Spec == Init /\ [][Next]_vars

\* The retry loops of the error manager and of the error hooks.
RespondNext ==
    \/ \E break_on \in BreakOns : HikariErrorManager_init(break_on)
    \/ \E break_on \in BreakOns : manager_clear_rules(break_on)
    \/ try_respond
    \/ \E h \in Hooks : error_hook(h)
    \/ loop_next
    \/ respond_ok
    \/ \E exception \in Exceptions : respond_raises(exception)
    \/ loop_end

RespondSpec == Init /\ [][RespondNext]_vars

\* The awaited respond call completes: it returns or it raises.
respond_completes == respond_ok \/ \E exception \in Exceptions : respond_raises(exception)

\* The try_respond calls of a manager built with the default Backoff.
RespondLiveNext ==
    \/ \E break_on \in BreakOns : HikariErrorManager_init(break_on)
    \/ try_respond
    \/ loop_next
    \/ respond_ok
    \/ \E exception \in Exceptions : respond_raises(exception)
    \/ loop_end

\* The event loop runs the coroutine on: every sleep of the Backoff ends, and
\* every respond call that was awaited completes.
RespondLiveSpec ==
    /\ Init
    /\ [][RespondLiveNext]_vars
    /\ WF_vars(loop_next)
    /\ WF_vars(respond_completes)

TaskNext ==
    \/ \E break_on \in TaskBreakOns : HikariErrorManager_init(break_on)
    \/ \E t \in Tasks : task_try_respond(t)
    \/ \E t \in Tasks : task_error_hook(t, "on_error")
    \/ \E t \in Tasks : task_next(t)
    \/ \E t \in Tasks : task_wake(t)
    \/ \E t \in Tasks : task_cancel(t)
    \/ \E t \in Tasks : task_ok(t)
    \/ \E t \in Tasks, exception \in TaskExceptions : task_raises(t, exception)
    \/ \E t \in Tasks : task_end(t)

TaskSpec == Init /\ [][TaskNext]_vars

EventNext ==
    \/ \E cl \in EventClusters, event_name \in EventNames, l \in Listeners :
           add_cluster_event(cl, event_name, l)
    \/ \E cl \in EventClusters, event \in EventNames : dispatch_cluster_event(cl, event)

EventSpec == Init /\ [][EventNext]_vars

\* The characters of the contents whose prefix is resolved.
PrefixChars == {"!", "?", "a"}

\* message.content: every string of at most MaxContent of these characters.
PrefixContents == UNION {[1..n -> PrefixChars] : n \in 0..MaxContent}

\* message.guild_id: no guild, or a guild with or without a prefix of its own.
PrefixGuilds == {NoGuild, "g1", "g2", "g3"}

PrefixMessages == [author : {"u1"}, content : PrefixContents, guild_id : PrefixGuilds]

\* Prefix resolution of any message, by a client with no commands.
PrefixNext ==
    \/ \E msg \in PrefixMessages : on_message_create(msg)
    \/ traverse
    \/ return

PrefixSpec == Init /\ [][PrefixNext]_vars

\* The message dispatched to the clusters that are bound and registered: every
\* command has a trigger that matches it, and its author may run every command.
ClusterMessages ==
    [author : {"u2"}, content : {<<"!", "a", "b", " ", "x">>}, guild_id : {NoGuild}]

\* The clusters of these runs: the router and two instances of the class A.
BoundClusters == {Root, "A", "A2"}

\* The commands registered one by one; c1 and c2 are members of the class A.
Explicit == {"c3"}

\* The registration calls of clusters and commands, with the dispatch of a
\* message to what they have registered: a cluster instance is bound,
\* registered and re-registered, a command registered any number of times, and
\* any command unregistered whether it is in the cluster or not.
ClusterNext ==
    \/ \E cl \in BoundClusters : bind_commands(cl)
    \/ \E cluster \in BoundClusters \ {Root} : register_cluster(cluster)
    \/ pc = "idle" /\ \E cl \in BoundClusters, c \in Explicit : register_command(cl, c)
    \/ pc = "idle" /\ \E cl \in BoundClusters, c \in CommandIds : unregister_command(cl, c)
    \/ \E msg \in ClusterMessages : on_message_create(msg)
    \/ traverse
    \/ execute
    \/ return

ClusterSpec == Init /\ [][ClusterNext]_vars

\* The dispatch of a message to commands whose check predicates return,
\* raise an exception or raise PermissionError.
CheckNext ==
    \/ pc = "idle" /\ \E c \in CommandIds \ Registered : register_command(Root, c)
    \/ \E c \in CommandIds, p \in Outcomes \cup {PermissionError} : register_check(c, p)
    \/ \E msg \in ClusterMessages : on_message_create(msg)
    \/ traverse
    \/ execute
    \/ return

CheckSpec == Init /\ [][CheckNext]_vars

\* The statuses of the response errors: client errors, the rate limit, server
\* errors.
Statuses == {400, NotFound, TooManyRequests, ServerErrorFloor, 503}

\* The break_on arguments of the status handlers.
StatusBreakOns == SUBSET {NotFound, TooManyRequests, 503}

\* The on_404 arguments: None, a string, a callable that returns.
On404s ==
    { [kind |-> "None", text |-> ""],
      [kind |-> "str", text |-> "Couldn't find it"],
      [kind |-> "callable", text |-> ""] }

\* exception.headers: None, an empty mapping, a mapping without the header,
\* and mappings whose Retry-After is a number of seconds or an HTTP date.
Headers ==
    { NoHeaders, {}, {<<"Date", <<"x">>>>},
      {<<RetryAfter, <<"3">>>>}, {<<RetryAfter, <<"1", "0">>>>},
      {<<RetryAfter, <<"1", "5">>>>}, {<<RetryAfter, <<"x">>>>} }

ResponseErrors == [status : Statuses, headers : Headers]

\* The rule of any status handler called with any response error, once.
StatusNext ==
    /\ call = NoCall
    /\ \E break_on \in StatusBreakOns, on_404 \in On404s, exception \in ResponseErrors :
           AIOHTTPStatusHandler(break_on, on_404, Backoff(DefaultMaxRetries), exception)

StatusSpec == Init /\ [][StatusNext]_vars

\* The characters of the triggers and contents Command.check_prefix is given:
\* letters of both cases, and a character that is special in a regular
\* expression.
TriggerChars == {"a", "A", "."}

\* Command.triggers: a non-empty tuple of strings; an alias can be empty.
TriggerStrings == UNION {[1..n -> TriggerChars] : n \in 0..2}
TriggerTuples == UNION {[1..n -> TriggerStrings] : n \in 1..MaxTriggers}

\* The contents a command's triggers are matched against.
TriggerContents == UNION {[1..n -> TriggerChars] : n \in 0..MaxContent}

\* Command.check_prefix of any triggers on any content, once.
TriggerNext ==
    /\ call = NoCall
    /\ \E ts \in TriggerTuples, content \in TriggerContents : Command_check_prefix(ts, content)

TriggerSpec == Init /\ [][TriggerNext]_vars

\* The message dispatched while commands are registered and unregistered: every
\* command has a trigger that matches it, and its author may run c1 alone.
ConcurrentMessages ==
    [author : {"u0"}, content : {<<"!", "a", "b", " ", "x">>}, guild_id : {NoGuild}]

\* The traversal of on_message_create is suspended (in an awaited check
\* predicate or in access_check), or no message is being dispatched: other
\* tasks of the event loop run.
Suspended == pc \in {"idle", "traverse"}

\* One message at a time is dispatched while another task registers and
\* unregisters commands, also during the traversal's suspensions.
ConcurrentNext ==
    \/ pc = "idle" /\ \E name \in ClusterNames : register_cluster(name)
    \/ Suspended /\ \E cl \in {Root} \cup ClusterNames, c \in CommandIds \ Registered :
                        register_command(cl, c)
    \/ Suspended /\ \E cl \in {Root} \cup ClusterNames :
                        \E c \in {x \in CommandIds : contains(cluster_commands[cl], x)} :
                            unregister_command(cl, c)
    \/ \E msg \in ConcurrentMessages : on_message_create(msg)
    \/ traverse
    \/ execute
    \/ return

ConcurrentSpec == Init /\ [][ConcurrentNext]_vars

\* The messages in flight together: they differ in prefix, in author and in
\* the commands whose triggers match.
FlightMessages ==
    { [author |-> "u1", content |-> <<"!", "a", "b", " ", "x">>, guild_id |-> NoGuild],
      [author |-> "u2", content |-> <<"?", "b", " ", "x">>, guild_id |-> NoGuild],
      [author |-> "u2", content |-> <<"a", "b">>, guild_id |-> NoGuild] }

\* The configuration is built while no message is in flight; then messages are
\* dispatched by tasks that interleave at every iteration of their traversal.
FlightNext ==
    \/ Quiet /\ \E name \in ClusterNames : register_cluster(name)
    \/ Quiet /\ \E cl \in {Root} \cup ClusterNames, c \in CommandIds \ Registered :
                    register_command(cl, c)
    \/ Quiet /\ \E c \in CommandIds, p \in Outcomes : register_check(c, p)
    \/ Quiet /\ \E c \in CommandIds, p \in Outcomes \cup {PrefixCheck} : deregister_check(c, p)
    \/ \E t \in Flights, msg \in FlightMessages : flight_on_message_create(t, msg)
    \/ \E t \in Flights : flight_traverse(t)
    \/ \E t \in Flights : flight_execute(t)
    \/ \E t \in Flights : flight_return(t)

FlightSpec == Init /\ [][FlightNext]_vars

\* ctx.content of the Contexts a command is checked for on its own.
PredicateContents == { <<"a", "b", " ", "x">>, <<"b", " ", "x">>, <<"x">> }

\* The check lists that register_check and deregister_check build for the
\* commands of the router, and Command.check of one of them, once.
PredicateNext ==
    \/ call = NoCall /\ \E c \in CommandIds \ Registered : register_command(Root, c)
    \/ call = NoCall /\ \E c \in CommandIds, p \in Outcomes : register_check(c, p)
    \/ call = NoCall /\ \E c \in CommandIds, p \in Outcomes \cup {PrefixCheck} :
                            deregister_check(c, p)
    \/ call = NoCall /\ \E c \in CommandIds, content \in PredicateContents :
                            Command_check(c, content)

PredicateSpec == Init /\ [][PredicateNext]_vars

(***************************************************************************)
(* Properties of the dispatch of one message (specification Spec).         *)
(***************************************************************************)
\* The content the commands are matched against: the message's content
\* without the resolved prefix.
Stripped == slice_from(message.content, Len(check_prefix(message)))

\* A prefix was resolved for the message being dispatched.
Resolved == pc # "idle" /\ check_prefix(message) # <<>>

RECURSIVE flatten(_)
flatten(cls) ==
    IF cls = <<>> THEN <<>> ELSE cluster_commands[Head(cls)] \o flatten(Tail(cls))

\* The fixed traversal order: the root cluster's commands in stored order,
\* then every registered sub-cluster's, in registration order.
Traversal == cluster_commands[Root] \o flatten(clusters)

\* The configured level of a user, 0 when none is configured.
ConfiguredLevel(u) == IF u = "u1" THEN 1 ELSE IF u = "u2" THEN 2 ELSE 0

\* Command.check passes for the command and so does the access check.
Eligible(c) ==
    /\ check(c, Context(Stripped)).result
    /\ ConfiguredLevel(message.author) >= level(c)

EligibleAt == {i \in 1..Len(Traversal) : Eligible(Traversal[i])}

FirstEligible ==
    IF EligibleAt = {} THEN NoCommand
    ELSE Traversal[CHOOSE i \in EligibleAt : \A j \in EligibleAt : i <= j]

\* C1: for a message with a resolved prefix on_message_create executes at most
\* one command; the command it selects and executes is the first one, in the
\* traversal order (root cluster's commands in stored order, then each
\* sub-cluster in registration order), whose check passes and whose access
\* check passes; and when such a command exists and its trigger was recorded
\* in the context, it is the one executed.
C1_FirstEligibleExecuted ==
    Resolved =>
        /\ Len(executed) <= 1
        /\ selected # NoCommand => selected = FirstEligible
        /\ \A i \in 1..Len(executed) : executed[i][1] = FirstEligible
        /\ (pc = "done" /\ FirstEligible # NoCommand /\ raised # "AttributeError")
               => Len(executed) = 1

\* C1 witness: a command of the second registered sub-cluster was executed
\* after commands that are not eligible, while a later command is eligible too.
C1_Witness ==
    /\ pc = "done"
    /\ Len(executed) = 1
    /\ Len(clusters) = 2
    /\ contains(cluster_commands[clusters[2]], executed[1][1])
    /\ Len(checked) >= 2
    /\ Cardinality(EligibleAt) >= 1
    /\ Len(cluster_commands[clusters[1]]) >= 1

\* What one check predicate returns for the message being dispatched; a
\* predicate that raises has returned nothing.
ReturnedTrue(c, p) ==
    LET r == call_check(c, p, Context(Stripped)) IN ~r.raised /\ r.result

\* C2: a command is never executed unless every one of its registered check
\* predicates returned true for the message's context; in particular not when
\* one of them raised.
C2_ExecutedOnlyIfAllChecksTrue ==
    \A i \in 1..Len(executed) :
        LET c == executed[i][1]
        IN  \A j \in 1..Len(checks[c]) : ReturnedTrue(c, checks[c][j])

\* C3: whenever a command is executed (or selected) for a message the author's
\* configured access level, 0 when none is configured, is at least the
\* command's level; and a command that passed its check is refused by
\* access_check exactly when the author's level is below the command's.
C3_AccessLevel ==
    /\ \A i \in 1..Len(executed) :
           ConfiguredLevel(message.author) >= level(executed[i][1])
    /\ selected # NoCommand => ConfiguredLevel(message.author) >= level(selected)
    /\ \A i \in 1..Len(denied) :
           ConfiguredLevel(message.author) < level(denied[i])

\* C3 witness: a user of level 1 has run a command of level 1, after a command
\* of level 2 was refused.
C3_Witness ==
    /\ pc = "done"
    /\ message.author = "u1"
    /\ Len(executed) = 1
    /\ level(executed[1][1]) = 1
    /\ Len(denied) = 1
    /\ level(denied[1]) = 2

\* The i first elements of a sequence.
Prefix(seq, i) == SubSeq(seq, 1, i)

\* C4: a command that matches but whose level is above the author's is not
\* executed, and the traversal goes on with the next command: the commands
\* checked are always an initial part of the traversal order that ends at the
\* selected command if there is one, and when the traversal ends with no
\* command passing the access check, every command has been checked,
\* on_message_create returns with no command executed and no error raised.
C4_DeniedThenContinue ==
    Resolved =>
        /\ \A i \in 1..Len(denied) : \A j \in 1..Len(executed) : executed[j][1] # denied[i]
        /\ Len(checked) <= Len(Traversal)
        /\ checked = Prefix(Traversal, Len(checked))
        /\ selected # NoCommand => checked[Len(checked)] = selected
        /\ (pc = "done" /\ selected = NoCommand)
               => /\ checked = Traversal
                  /\ executed = <<>>
                  /\ raised = "none"

\* C4 witness: the first command matched and was refused, the traversal went
\* on to another command, and the message was dropped silently.
C4_Witness ==
    /\ pc = "done"
    /\ Len(denied) >= 1
    /\ denied[1] = checked[1]
    /\ Len(checked) >= 2
    /\ executed = <<>>
    /\ raised = "none"

(***************************************************************************)
(* Properties of one retry loop (specification RespondSpec).  log holds    *)
(* the loop's sleeps and attempts in order.                                *)
(***************************************************************************)
IsFail(i) == log[i].ev = "fail"
IsSleep(i) == log[i].ev = "sleep"
IsOk(i) == log[i].ev = "ok"

\* The attempts of the respond action made so far by the running loop.
Attempts == Cardinality({i \in 1..Len(log) : ~IsSleep(i)})

\* The failure is a rate limit whose retry-after is at most 10 seconds.
ShortRateLimit(i) == IsFail(i) /\ log[i].kind = "RateLimitedError" /\ log[i].n <= 10

\* The failure is a rate limit whose retry-after is more than 10 seconds.
LongRateLimit(i) == IsFail(i) /\ log[i].kind = "RateLimitedError" /\ log[i].n > 10

\* The failure is an internal server error (5xx).
ServerError(i) == IsFail(i) /\ log[i].kind = "InternalServerError"

\* The sleeps before position j that took the backoff's own (growing) delay.
NormalSleepsBefore(j) ==
    Cardinality({k \in 2..(j - 1) : IsSleep(k) /\ ~ShortRateLimit(k - 1)})

\* The permits the running loop's Backoff gives: max_retries.
Permits == loop_backoff.max_retries

\* The loop has ended, normally or with an exception.
Ended == rpc \in {"returned", "raised"}

C8_BreakOnFinishes ==
    \A i \in 1..Len(log) : (IsFail(i) /\ log[i].kind \in loop_break_on) =>
        /\ i = Len(log)
        /\ loop_backoff.finished
        /\ rpc \in {"iter", "returned"}
        /\ propagated = NoException

\* C8 as amended: the same, for every exception kind of break_on that is
\* neither InternalServerError nor RateLimitedError, whose rules come first.
C8_BreakOnFinishesUnlessShadowed ==
    \A i \in 1..Len(log) :
        (/\ IsFail(i)
         /\ log[i].kind \in loop_break_on
         /\ log[i].kind \notin {"InternalServerError", "RateLimitedError"}) =>
            /\ i = Len(log)
            /\ loop_backoff.finished
            /\ rpc \in {"iter", "returned"}
            /\ propagated = NoException

\* C8 witness: on_error returned after a NotFoundError on its second attempt,
\* with permits left.
C8_Witness ==
    /\ caller = "on_error"
    /\ rpc = "returned"
    /\ Len(log) = 3
    /\ log[3] = [ev |-> "fail", kind |-> "NotFoundError", n |-> 0]
    /\ Attempts < Permits

\* C9: an exception that matches none of the manager's rules (it is not an
\* InternalServerError, not a RateLimitedError and not in break_on) leaves the
\* loop unchanged, and no attempt follows it.
C9_UnmatchedPropagates ==
    \A i \in 1..Len(log) :
        (/\ IsFail(i)
         /\ log[i].kind \notin {"InternalServerError", "RateLimitedError"}
         /\ log[i].kind \notin loop_break_on) =>
            /\ i = Len(log)
            /\ rpc = "raised"
            /\ propagated = [kind |-> log[i].kind, retry_after |-> log[i].n]

\* C9 witness: try_respond of a manager with no break_on was left by a
\* NotFoundError on its second attempt.
C9_Witness ==
    /\ caller = "try_respond"
    /\ manager.break_on = {}
    /\ rpc = "raised"
    /\ propagated.kind = "NotFoundError"
    /\ Len(log) = 3

\* A 5xx or rate-limit failure.
Transient(i) == ServerError(i) \/ ShortRateLimit(i) \/ LongRateLimit(i)

C11_AttemptsBounded ==
    /\ caller = "try_respond" => Attempts <= DefaultMaxRetries
    /\ caller \in Hooks => Attempts <= HookMaxRetries
    /\ (caller # "none" /\ rpc = "iter" /\ Attempts = Permits)
           => anext(loop_backoff).stop
    /\ (caller # "none" /\ rpc = "attempt") => Attempts < Permits

\* C11 witness: try_respond has returned after five attempts that all failed.
C11_Witness ==
    /\ caller = "try_respond"
    /\ rpc = "returned"
    /\ Attempts = DefaultMaxRetries
    /\ \A i \in 1..Len(log) : ~IsOk(i)

\* C12: within one try_respond call, a successful attempt is the last thing the
\* loop does: no attempt and no sleep follows it, the call returns normally,
\* and so at most one attempt of the call succeeds.
C12_SuccessLeavesLoop ==
    caller = "try_respond" =>
        /\ \A i \in 1..Len(log) : IsOk(i) =>
               /\ i = Len(log)
               /\ rpc = "returned"
               /\ propagated = NoException
        /\ Cardinality({i \in 1..Len(log) : IsOk(i)}) <= 1

\* C12 witness: try_respond returned after its last permitted attempt succeeded.
C12_Witness ==
    /\ caller = "try_respond"
    /\ rpc = "returned"
    /\ Len(log) > 0
    /\ IsOk(Len(log))
    /\ Attempts = DefaultMaxRetries

(***************************************************************************)
(* Properties of concurrent retry loops (specification TaskSpec).          *)
(***************************************************************************)
\* What the loop of task t sees of its Backoff: the attempt count, the
\* finished flag and the next delay.
seen(t) ==
    LET b == task_backoff(t)
    IN  <<b.retries, b.finished, b.next_backoff>>

\* Task u starts a call (reset) or handles a failed attempt (finish,
\* set_next_backoff) in this step.
resets_or_classifies(u) == tpc[u] \in {"idle", "attempt"} /\ tpc'[u] # tpc[u]

\* C13: the Backoff that drives the retry loop of one in-flight call is not
\* shared with another call: a reset, finish or set_next_backoff done by a
\* step of another task leaves the attempt count, the finished flag and the
\* next delay that an in-flight task sees as they are.
C13_BackoffNotShared ==
    [][\A t \in Tasks, u \in Tasks :
          (t # u /\ InFlight(t) /\ tpc'[t] = tpc[t] /\ resets_or_classifies(u))
              => seen(t)' = seen(t)]_vars

\* C14: a task cancelled inside a backoff sleep has left its loop (so it makes
\* no further attempt) with the cancellation propagating to its caller.
C14_CancelPropagates ==
    \A t \in Tasks : tcancelled[t] => tpc[t] = "raised" /\ tprop[t] = CancelledError

\* C14 witness: a try_respond call and a hook were both cancelled in a sleep.
C14_Witness ==
    /\ tcancelled["t1"] /\ tcaller["t1"] = "try_respond"
    /\ tcancelled["t2"] /\ tcaller["t2"] = "on_error"
    /\ tprop["t1"] = CancelledError
    /\ tprop["t2"] = CancelledError

(***************************************************************************)
(* Properties of Command.execute (specification Spec).                     *)
(***************************************************************************)
\* The handler of the selected command was invoked and did h.
Handler(h) == pc = "done" /\ trail # <<>> /\ trail[1].outcome = h

\* C15: when the handler raises an exception other than CommandError, that
\* exception leaves on_message_create (it is not swallowed), and if the command
\* belongs to a cluster the cluster's ERROR event is dispatched with the
\* context and the exception before the exception is re-raised.
C15_ErrorEventThenReraise ==
    Handler("Exception") =>
        /\ raised = "Exception"
        /\ trail[Len(trail)] = [step |-> "raise", exc |-> "Exception"]
        /\ bound(selected) =>
               /\ Len(trail) = 3
               /\ trail[2] = [step |-> "dispatch", cluster |-> cluster_of(selected),
                              event |-> "error", ctx |-> ctx, exc |-> "Exception"]
        /\ ~bound(selected) => \A i \in 1..Len(trail) : trail[i].step # "dispatch"

\* C15 witness: the handler of a command bound to a sub-cluster raised.
C15_Witness ==
    /\ Handler("Exception")
    /\ bound(selected)
    /\ cluster_of(selected) \in ClusterNames
    /\ raised = "Exception"

\* C16: when the handler raises CommandError, execute replies with the error's
\* response string, dispatches no ERROR event, does not re-raise the
\* CommandError, and a PermissionError of the reply is suppressed.
C16_CommandErrorReplied ==
    Handler("CommandError") =>
        /\ Len(trail) = 2
        /\ trail[2].step = "reply"
        /\ trail[2].content = Response
        /\ raised # "CommandError"
        /\ trail[2].outcome \in {"ok", "PermissionError"} => raised = "none"

\* C16 witness: the reply to a CommandError raised PermissionError and
\* on_message_create returned normally.
C16_Witness ==
    /\ Handler("CommandError")
    /\ trail[2].outcome = "PermissionError"
    /\ raised = "none"

(***************************************************************************)
(* Properties of cluster events (specification EventSpec).                 *)
(***************************************************************************)
\* C17: when a cluster event is dispatched, every listener subscribed to that
\* cluster for the same event name is invoked, whatever the other listeners of
\* the event do (return or raise).
C17_EveryListenerInvoked ==
    dispatched # <<>> =>
        \A i \in 1..dispatched[3] :
            (/\ subscribed[i].cluster = dispatched[1]
             /\ str(subscribed[i].event_name) = str(dispatched[2]))
                => \E j \in 1..Len(invoked) : invoked[j].listener = subscribed[i].listener

\* C17 witness: the ERROR event went to two listeners, subscribed one by the
\* enum member and one by the string; the first raised and the second ran.
C17_Witness ==
    /\ dispatched # <<>>
    /\ dispatched[1] = "A"
    /\ dispatched[2] = "CommandEvents.ERROR"
    /\ Len(invoked) = 2
    /\ invoked[1] = [listener |-> "l1", outcome |-> "raise"]
    /\ invoked[2] = [listener |-> "l2", outcome |-> "ok"]
    /\ \E i \in 1..Len(subscribed) : subscribed[i].event_name = "error"
    /\ \E i \in 1..Len(subscribed) : subscribed[i].event_name = "CommandEvents.ERROR"

(***************************************************************************)
(* Properties of prefix resolution (specification PrefixSpec).             *)
(***************************************************************************)
\* The prefix of the message's guild, <<>> when it has no guild or no prefix.
GuildPrefix == IF message.guild_id = NoGuild THEN <<>> ELSE get_guild_prefix(message.guild_id)

\* C18: the candidate list of a message holds every global prefix in the
\* configured order; the guild's prefix, when the message has a guild and the
\* resolver returns one, comes first; and check_prefix returns the first
\* candidate the content starts with, or None when there is no such candidate.
C18_PrefixResolution ==
    pc # "idle" =>
        LET ps == _get_prefixes(message.guild_id)
            k == IF GuildPrefix # <<>> THEN 1 ELSE 0
        IN  /\ Len(ps) = Len(prefixes) + k
            /\ \A i \in 1..Len(prefixes) : ps[i + k] = prefixes[i]
            /\ k = 1 => ps[1] = GuildPrefix
            /\ prefix = <<>> => \A i \in 1..Len(ps) : ~startswith(message.content, ps[i])
            /\ prefix # <<>> =>
                   \E i \in 1..Len(ps) :
                       /\ ps[i] = prefix
                       /\ startswith(message.content, ps[i])
                       /\ \A j \in 1..(i - 1) : ~startswith(message.content, ps[j])

\* C18 witness: in guild g2 the content "!a?" resolves the guild's prefix "!a",
\* which comes before the global prefix "!" that the content starts with too.
C18_Witness ==
    /\ pc # "idle"
    /\ message.guild_id = "g2"
    /\ message.content = <<"!", "a", "?">>
    /\ prefix = <<"!", "a">>

(***************************************************************************)
(* Properties of the dispatch of one message, continued (specification     *)
(* Spec).                                                                  *)
(***************************************************************************)
\* C19: a message whose content starts with none of its candidate prefixes is
\* dropped: no check of a command is evaluated, no command is executed and no
\* error is raised; a message whose content starts with a configured prefix
\* resolves a prefix.
C19_NoPrefixDropped ==
    pc # "idle" =>
        /\ (\A i \in 1..Len(_get_prefixes(message.guild_id)) :
                ~startswith(message.content, _get_prefixes(message.guild_id)[i]))
               => /\ pc = "done"
                  /\ prefix = <<>>
                  /\ checked = <<>>
                  /\ executed = <<>>
                  /\ trail = <<>>
                  /\ raised = "none"
        /\ (\E i \in 1..Len(prefixes) : startswith(message.content, prefixes[i]))
               => prefix # <<>> /\ startswith(message.content, prefix)

\* C19 witness: the message "ab" was dropped although a registered command has
\* the trigger "a".
C19_Witness ==
    /\ pc = "done"
    /\ message.content = <<"a", "b">>
    /\ prefix = <<>>
    /\ "c1" \in Registered

\* The trigger of command c that the prefix-stripped content starts with.
MatchedTrigger(c) == command_check_prefix(c, Stripped)

\* C20: the content a selected command is executed with is the message's
\* content without the resolved prefix and then without the command's matched
\* trigger and one more character; and until a command is selected the
\* context's content is the prefix-stripped content.
C20_ContentPruned ==
    /\ \A i \in 1..Len(executed) :
           executed[i][2] = slice_from(Stripped, Len(MatchedTrigger(executed[i][1])) + 1)
    /\ pc \in {"traverse", "selected"} => ctx.content = Stripped

\* The loop has just handled the failure that ends its log.
JustFailed == Len(log) > 0 /\ IsFail(Len(log)) /\ rpc \in {"iter", "raised"}

\* C27: the manager's rules are, in this order, the InternalServerError rule,
\* the RateLimitedError rule and, only when break_on is not empty, the
\* break_on rule, also after clear_rules; and a failure gets the effect of
\* the first rule that names its kind and of no other: the Backoff is finished
\* only by a break_on kind that the two first rules do not name, the next
\* delay is set only by a short rate limit, and the exception leaves the loop
\* only if it is a long rate limit or matches no rule.
C27_RulesInRegistrationOrder ==
    /\ manager.built =>
           /\ Len(manager.rules) = IF manager.break_on = {} THEN 2 ELSE 3
           /\ manager.rules[1] =
                  [kinds |-> {"InternalServerError"}, callback |-> "_on_internal_server_error"]
           /\ manager.rules[2] =
                  [kinds |-> {"RateLimitedError"}, callback |-> "_on_rate_limited_error"]
           /\ manager.break_on # {} =>
                  manager.rules[3] = [kinds |-> manager.break_on, callback |-> "_on_break_on"]
    /\ JustFailed =>
           LET i == Len(log)
               early == log[i].kind \in {"InternalServerError", "RateLimitedError"}
           IN  /\ loop_backoff.finished <=> (~early /\ log[i].kind \in loop_break_on)
               /\ loop_backoff.next_backoff # NoBackoff <=> ShortRateLimit(i)
               /\ ShortRateLimit(i) => loop_backoff.next_backoff = log[i].n
               /\ rpc = "raised" <=>
                      (LongRateLimit(i) \/ (~early /\ log[i].kind \notin loop_break_on))

\* C27 witness: the manager's break_on names RateLimitedError, and a short
\* rate limit was handled by the rate-limit rule, which comes first: the next
\* delay is set and the Backoff is not finished.
C27_Witness ==
    /\ caller = "try_respond"
    /\ manager.break_on = {"RateLimitedError", "NotFoundError"}
    /\ JustFailed
    /\ ShortRateLimit(Len(log))
    /\ rpc = "iter"
    /\ ~backoff_handler.finished
    /\ backoff_handler.next_backoff = 3

(***************************************************************************)
(* Properties of Command.check_prefix (specification TriggerSpec).         *)
(***************************************************************************)
\* p is a literal prefix of s: s is at least as long and has the very
\* characters of p at its start.
LiteralPrefix(p, s) == Len(p) <= Len(s) /\ \A k \in 1..Len(p) : s[k] = p[k]

\* The positions of the triggers that are literal prefixes of the content.
PrefixingAt(ts, content) == {i \in 1..Len(ts) : LiteralPrefix(ts[i], content)}

\* C21: Command.check_prefix returns the first trigger, in declared order,
\* that is a literal (case-sensitive, non-regex) prefix of the content, and
\* returns None when no trigger is a prefix of the content.
C21_FirstLiteralTrigger ==
    call.fn = "Command.check_prefix" =>
        LET at == PrefixingAt(call.triggers, call.content)
        IN  /\ returned.raised = "none"
            /\ at = {} => ~returned.found
            /\ at # {} =>
                   /\ returned.found
                   /\ returned.value = call.triggers[CHOOSE i \in at : \A j \in at : i <= j]

\* C21 witness: the first trigger, a character that a pattern would match
\* against any character, does not prefix the content; the second one does and
\* was returned.
C21_Witness ==
    /\ call.fn = "Command.check_prefix"
    /\ call.triggers = << <<".">>, <<"a">> >>
    /\ call.content = <<"a", "A">>
    /\ returned.found
    /\ returned.value = <<"a">>

(***************************************************************************)
(* Properties of the registration calls (specification ClusterSpec).       *)
(***************************************************************************)
\* C22: bind_commands is one-shot: whatever commands a cluster has, every
\* bind_commands call on it after the first one fails with an error (and so
\* adds no command a second time).
C22_BindCommandsOneShot ==
    \A cl \in {Root} \cup ClusterInstances :
        \A i \in 2..Len(binds[cl]) : binds[cl][i] = "ValueError"

\* The canonical name of a command: its first trigger.
canonical(c) == triggers(c)[1]

\* A command list in descending order of canonical name.
DescendingByCanonical(seq) ==
    \A i \in 1..(Len(seq) - 1) : ~str_lt(canonical(seq[i]), canonical(seq[i + 1]))

\* The step is a bind_commands call on cl that went through.
Bound(cl) ==
    /\ Len(binds'[cl]) = Len(binds[cl]) + 1
    /\ binds'[cl][Len(binds'[cl])] = "ok"

\* C23: immediately after bind_commands the cluster's cluster_commands is in
\* descending order of canonical name (the first trigger), the order in which
\* dispatch tries the commands of the cluster.
C23_SortedByCanonicalName ==
    [][\A cl \in {Root} \cup ClusterInstances :
           Bound(cl) => DescendingByCanonical(cluster_commands'[cl])]_vars

\* The trigger strings of a command.
TriggerSet(c) == {triggers(c)[i] : i \in 1..Len(triggers(c))}

\* C24: whatever bind_commands, register_command and unregister_command calls
\* were made on a cluster, no trigger string belongs to two different commands
\* of that cluster.
C24_TriggersUniqueInCluster ==
    \A cl \in {Root} \cup ClusterInstances :
        \A i, j \in 1..Len(cluster_commands[cl]) :
            cluster_commands[cl][i] # cluster_commands[cl][j]
                => TriggerSet(cluster_commands[cl][i]) \cap TriggerSet(cluster_commands[cl][j]) = {}

\* The cluster a selected command was yielded by.
YieldedBy == order[pos[1]]

\* C25: unregister_command of a command that is not in the cluster raises
\* ValueError and leaves cluster_commands unchanged; unregister_command of a
\* registered command raises nothing and removes it, and a message selects
\* through a cluster only a command that is in the cluster's list, so that no
\* later message selects the removed command through that cluster.
C25_UnregisterCommand ==
    [][/\ \A cl \in {Root} \cup ClusterInstances, c \in CommandIds :
              unregister_command(cl, c) =>
                  IF contains(cluster_commands[cl], c)
                  THEN error' = NoError /\ ~contains(cluster_commands'[cl], c)
                  ELSE /\ error' = [op |-> "unregister_command", exc |-> "ValueError"]
                       /\ cluster_commands' = cluster_commands
       /\ pc' = "selected" => contains(cluster_commands'[YieldedBy'], selected')]_vars

\* The cluster instances the router holds.
Held == {clusters[i] : i \in 1..Len(clusters)}

\* The commands dispatch can reach: those of the router and of the held
\* instances.
Reachable ==
    {c \in CommandIds : \E cl \in {Root} \cup Held : contains(cluster_commands[cl], c)}

RECURSIVE Called(_, _, _, _)
Called(c, cs, i, cx) ==
    IF i > Len(cs) THEN {}
    ELSE LET r == call_check(c, cs[i], cx)
         IN  {i} \cup (IF r.raised THEN Called(c, cs, i + 1, cx)
                       ELSE IF r.result THEN Called(c, cs, i + 1, r.ctx)
                       ELSE {})

\* A predicate of command c raised PermissionError when c was checked for the
\* message being dispatched.
PermissionRaised(c) ==
    \E i \in Called(c, checks[c], 1, Context(Stripped)) : checks[c][i] = PermissionError

\* C26: when a check predicate raises PermissionError, Command.check raises it
\* to its caller instead of turning it into a false result: the dispatch of
\* the message ends there with PermissionError.
C26_PermissionErrorReraised ==
    (\E i \in 1..Len(checked) : PermissionRaised(checked[i]))
        => pc = "done" /\ raised = PermissionError

(***************************************************************************)
(* Properties of AIOHTTPStatusHandler (specification StatusSpec).          *)
(***************************************************************************)
\* The rule of a status handler was called with a response error of status st.
Classified(st) ==
    /\ call.fn = "AIOHTTPStatusHandler._on_client_response_error"
    /\ call.exception.status = st

\* What the rule does with a client error that it has no case for: nothing
\* but let the exception through.
OtherClientError ==
    /\ returned.raised = "none"
    /\ returned.result
    /\ returned.backoff = call.backoff

\* C28: for a response error of status 404 that is not in break_on: if on_404
\* is a string, CommandError with exactly that string is raised; if it is a
\* callable, it is called exactly once and the error is then classified like
\* any other client error; if it is not configured, the error is classified
\* like any other client error, with no call.
C28_NotFound ==
    (Classified(404) /\ 404 \notin call.handler.break_on) =>
        LET on_404 == call.handler.on_404
        IN  /\ on_404.kind = "str" =>
                   /\ returned.raised = "CommandError"
                   /\ returned.message = on_404.text
                   /\ returned.on_404_calls = 0
            /\ on_404.kind = "callable" =>
                   OtherClientError /\ returned.on_404_calls = 1
            /\ on_404.kind = "None" =>
                   OtherClientError /\ returned.on_404_calls = 0

\* C28 witness: a handler with an on_404 string, whose break_on names other
\* statuses, raised CommandError for a 404.
C28_Witness ==
    /\ Classified(404)
    /\ call.handler.break_on = {429, 503}
    /\ call.handler.on_404.kind = "str"
    /\ returned.raised = "CommandError"
    /\ returned.message = "Couldn't find it"

\* The rule was called for a rate limit that carries a numeric hint, and
\* break_on does not name the status.
RateLimitHinted ==
    /\ Classified(429)
    /\ 429 \notin call.handler.break_on
    /\ raw_retry_after(call.exception.headers) # "None"
    /\ is_number(raw_retry_after(call.exception.headers))

\* The hint of that rate limit.
Hint == float(raw_retry_after(call.exception.headers))

\* What HikariErrorManager's rate-limit rule does for the same hint and the
\* same Backoff.
Hikari == _on_rate_limited_error(call.backoff, [kind |-> "RateLimitedError", retry_after |-> Hint])

\* C29: for the same hint the two handlers change the Backoff in the same way,
\* overriding the next delay exactly when the hint is at most 10, and return
\* the same rule result.
C29_SameDecision ==
    RateLimitHinted =>
        /\ returned.raised = "none"
        /\ returned.backoff = Hikari.backoff
        /\ returned.backoff.next_backoff # NoBackoff <=> Hint <= 10
        /\ returned.result = Hikari.result

(***************************************************************************)
(* Properties of a failed invocation and of the checks of a command        *)
(* (specification Spec).                                                   *)
(***************************************************************************)
\* The router's configuration: the cluster map, every cluster's command list
\* and every command's check list (prefixes and access levels are fixed).
Configuration == <<clusters, cluster_commands, checks>>

\* A step of Command.execute that ends with an exception.
Fails == pc = "selected" /\ pc' = "done" /\ raised' # "none"

\* on_message_create is left with that exception.
LeavesFailed == pc = "done" /\ raised # "none" /\ pc' = "idle"

\* C31: an exception raised while a command is executed changes nothing of the
\* router's configuration (cluster map, command lists, check lists), and once
\* on_message_create is left with it the router is where it was before the
\* message came: idle, with no Context, traversal or selection left over, so
\* the next message is dispatched from the same state.
C31_FailedInvocationOnly ==
    [][ /\ Fails => Configuration' = Configuration
        /\ LeavesFailed =>
               /\ Configuration' = Configuration
               /\ <<message, prefix, ctx, order, pos, selected>>'
                      = <<NoMessage, <<>>, NoContext, <<>>, <<1, 1>>, NoCommand>> ]_vars

\* The handler of a command of a registered cluster has raised; the command
\* has a check of its own.
C31_Witness ==
    /\ pc = "done"
    /\ raised = "Exception"
    /\ Len(executed) = 1
    /\ clusters # <<>>
    /\ \E cl \in ClusterNames : contains(cluster_commands[cl], executed[1][1])
    /\ count_custom(checks[executed[1][1]]) > 0

(***************************************************************************)
(* Properties of the loop of Command.check (specification PredicateSpec).  *)
(***************************************************************************)
\* The predicate at position i of the checked list returned false (it did
\* not raise) for the Context the command was checked for.
ReturnedFalse(i) ==
    LET r == call_check(call.command, call.checks[i], Context(call.content))
    IN  ~r.raised /\ ~r.result

\* The positions of the predicates that returned false.
FalseAt == {i \in 1..Len(call.checks) : ReturnedFalse(i)}

\* The position at which the loop is to stop: the first predicate that
\* returned false, or the end of the list.
StopAt ==
    IF FalseAt = {} THEN Len(call.checks)
    ELSE CHOOSE i \in FalseAt : \A j \in FalseAt : i <= j

\* C32: register_check puts a predicate at the end of the command's check
\* list, and Command.check calls the predicates of that list in order, one
\* after the other, up to and including the first one that returns false:
\* none after it is called, and check returns false.
C32_ShortCircuitInOrder ==
    [][ /\ \A c \in CommandIds :
               Len(checks'[c]) > Len(checks[c])
                   => \E p \in Outcomes : checks'[c] = Append(checks[c], p)
        /\ call'.fn = "Command.check" =>
               /\ returned'.called = [k \in 1..StopAt' |-> k]
               /\ FalseAt' # {} => ~returned'.result ]_vars

\* A command with three predicates of its own was checked: the first raised,
\* the second returned false, the third was not called.
C32_Witness ==
    /\ call.fn = "Command.check"
    /\ call.checks = <<PrefixCheck, "EXC", "F", "T">>
    /\ call.content = <<"a", "b", " ", "x">>
    /\ returned.called = <<1, 2, 3>>
    /\ ~returned.result

(***************************************************************************)
(* Termination of try_respond (specification RespondLiveSpec).             *)
(***************************************************************************)
\* A try_respond call is running: its Backoff was reset and its loop entered.
Running == caller = "try_respond" /\ rpc \in {"iter", "attempt"}

\* C33: every try_respond call on a manager with the default Backoff
\* eventually returns or raises, whatever the respond calls do, as long as
\* every sleep and every respond call completes.
C33_TryRespondTerminates == Running ~> Ended

\* try_respond has returned after its Backoff was used up by failures that
\* were all retried.
C33_Witness ==
    /\ caller = "try_respond"
    /\ rpc = "returned"
    /\ Attempts = DefaultMaxRetries
    /\ backoff_handler.retries = DefaultMaxRetries
    /\ ~backoff_handler.finished
    /\ \E i \in 1..Len(log) : ShortRateLimit(i)

\* A try_respond call starts: the step up to its loop.
Starts == caller = "none" /\ caller' = "try_respond"

\* The call has returned without a successful attempt and without a failure
\* that finished the Backoff: its attempts were used up.
UsedUp ==
    /\ caller = "try_respond"
    /\ rpc = "returned"
    /\ \A i \in 1..Len(log) : ~IsOk(i)
    /\ ~backoff_handler.finished

\* C34: a try_respond call, made when no other call on the manager is
\* running, starts its loop with the Backoff as it was built (no attempt
\* counted, not finished, no delay set), however the call before it left the
\* Backoff; so the call makes at least one attempt before it ends, the
\* permits counted are those of its own attempts, and it returns without success or break only
\* after all max_retries (5) attempts.
C34_ResetBeforeFirstAttempt ==
    [][ /\ Starts => backoff_handler' = Backoff(DefaultMaxRetries)
        /\ (caller' = "try_respond" /\ rpc' \in {"returned", "raised"}) => Attempts' >= 1
        /\ caller' = "try_respond" =>
               backoff_handler'.retries = Attempts' + (IF rpc' = "attempt" THEN 1 ELSE 0)
        /\ UsedUp' => Attempts' = DefaultMaxRetries ]_vars

\* A call that found the Backoff both used up and finished (the fifth attempt
\* of the call before it failed with a break_on exception) has made all five
\* attempts of its own.
C34_Witness ==
    /\ reused.exhausted
    /\ reused.finished
    /\ UsedUp
    /\ Attempts = DefaultMaxRetries

(***************************************************************************)
(* Properties of register_command (specification ClusterSpec).             *)
(***************************************************************************)
\* C35: register_command never rejects a command.  Whatever the cluster holds,
\* also when a trigger of the command is the same as, or starts with, a
\* trigger of a command of the cluster (the case that is logged), the call
\* raises nothing and the cluster's list afterwards is the list before with
\* the command added at its end: nothing is moved, nothing is sorted.
C35_RegisterCommandAppends ==
    [][ \A cl \in BoundClusters, c \in CommandIds :
            register_command(cl, c) =>
                /\ error' = NoError
                /\ cluster_commands' = [cluster_commands EXCEPT ![cl] = @ \o <<c>>] ]_vars

\* The bound cluster A, sorted by bind_commands, was given c3, whose trigger
\* "a" overlaps c1's: c3 is last, where a sort by name would have it first.
C35_Witness ==
    /\ binds["A"] = <<"ok">>
    /\ cluster_commands["A"] = <<"c1", "c2", "c3">>
    /\ error = NoError
    /\ sort_by_name_reverse(cluster_commands["A"]) # cluster_commands["A"]
    /\ \E i \in 1..Len(triggers("c3")) :
           get_command_from_name_loop(<<"c1", "c2">>, triggers("c3")[i]) # <<>>

(***************************************************************************)
(* Properties of the Context a handler is invoked with (specification      *)
(* Spec).                                                                  *)
(***************************************************************************)
\* The handler of the selected command was invoked for the message.
Invoked == pc = "done" /\ executed # <<>>

\* C36: when the handler of the selected command is invoked, the Context's
\* command is that command, and the Context's triggering name is one of that
\* command's triggers and a literal prefix of the prefix-stripped content,
\* whatever register_check and deregister_check calls were made before.
C36_ContextOfSelected ==
    Invoked =>
        /\ ctx.command = executed[1][1]
        /\ ctx.trigger_set
        /\ ctx.triggering_name \in TriggerSet(executed[1][1])
        /\ LiteralPrefix(ctx.triggering_name, Stripped)

(***************************************************************************)
(* Properties of a traversal during which commands are registered and      *)
(* unregistered (specification ConcurrentSpec).                            *)
(***************************************************************************)
\* The commands of the clusters from the k-th of the traversal's order on.
RECURSIVE later(_)
later(k) ==
    IF k > Len(order) THEN <<>> ELSE cluster_commands[order[k]] \o later(k + 1)

\* The commands the suspended traversal is still to fetch, as things are: the
\* rest of the list its generator is in, then the lists of the clusters after.
Remaining ==
    IF pos[1] > Len(order) THEN <<>>
    ELSE slice_from(cluster_commands[order[pos[1]]], pos[2] - 1) \o later(pos[1] + 1)

\* The command a register_command or unregister_command step is about.
Changed == {c \in CommandIds : \E cl \in DOMAIN cluster_commands :
               contains(cluster_commands[cl], c) # contains(cluster_commands'[cl], c)}

\* C37: a register_command or unregister_command call made while a traversal
\* is suspended leaves every other command where it was for that traversal: a
\* command still to be fetched is still to be fetched (it is not skipped), and
\* no command becomes due that was not (none is checked twice).
C37_TraversalUnaffected ==
    [][ (pc = "traverse" /\ cluster_commands' # cluster_commands) =>
            \A c \in CommandIds \ Changed :
                contains(Remaining, c) <=> contains(Remaining', c) ]_vars

(***************************************************************************)
(* Properties of several messages in flight (specification FlightSpec).    *)
(***************************************************************************)
\* The traversal of a message dispatched alone, from generator state <<k, i>>
\* on, run to its end without a suspension: the command selected and the
\* Context as the traversal leaves it.
RECURSIVE alone_from(_, _, _, _)
alone_from(msg, k, i, cx) ==
    LET p == seek_in(global_order, k, i)
    IN  IF p[1] > Len(global_order)
        THEN [selected |-> NoCommand, ctx |-> cx]
        ELSE LET c == cluster_commands[global_order[p[1]]][p[2]]
                 r == check(c, cx)
             IN  IF r.result /\ access_check(c, msg)
                 THEN [selected |-> c, ctx |-> r.ctx]
                 ELSE alone_from(msg, p[1], p[2] + 1, r.ctx)

\* What on_message_create does with a message that is dispatched alone, up to
\* the call of the handler: the command selected, and the Context (command,
\* trigger recorded, content) the handler gets.
Alone(msg) ==
    LET found == check_prefix(msg)
        stripped == slice_from(msg.content, Len(found))
        a == alone_from(msg, 1, 1, Context(stripped))
    IN  IF found = <<>> THEN [selected |-> NoCommand, ctx |-> NoContext, stripped |-> <<>>]
        ELSE IF a.selected = NoCommand \/ ~a.ctx.trigger_set
        THEN [selected |-> a.selected, ctx |-> a.ctx, stripped |-> stripped]
        ELSE [selected |-> a.selected,
              ctx |-> prune_content(a.ctx, Len(a.ctx.triggering_name) + 1),
              stripped |-> stripped]

\* C38: with several messages in flight and the configuration left as it is,
\* every message is dispatched with a Context of its own: until a command is
\* selected its Context holds its own prefix-stripped content, and the
\* command selected, the trigger recorded and the content the handler gets are
\* those of the message dispatched alone, whatever the other tasks did in
\* between.
C38_IndependentContexts ==
    \A t \in Flights :
        LET f == flights[t]
            a == Alone(f.message)
        IN  /\ f.pc \in {"traverse", "selected"} => f.ctx.content = a.stripped
            /\ f.pc = "done" => f.selected = a.selected /\ f.ctx = a.ctx

\* Two messages are in flight at once, each with a command selected: c1 with
\* the trigger "a" for "!ab x", c3 with the trigger "b" for "?b x".
C38_Witness ==
    /\ flights["m1"].pc = "selected"
    /\ flights["m1"].message.content = <<"!", "a", "b", " ", "x">>
    /\ flights["m1"].selected = "c1"
    /\ flights["m1"].ctx.triggering_name = <<"a">>
    /\ flights["m2"].pc = "selected"
    /\ flights["m2"].message.content = <<"?", "b", " ", "x">>
    /\ flights["m2"].selected = "c3"
    /\ flights["m2"].ctx.triggering_name = <<"b">>

(***************************************************************************)
(* Properties of break_on in AIOHTTPStatusHandler (specification           *)
(* StatusSpec).                                                            *)
(***************************************************************************)
\* The rule was called for a response error whose status break_on names.
BrokenOn ==
    /\ call.fn = "AIOHTTPStatusHandler._on_client_response_error"
    /\ call.exception.status \in call.handler.break_on

\* C39: for a status in break_on the rule finishes the Backoff and returns
\* False, and does nothing else: no next delay is set, nothing is raised
\* (neither CommandError nor the ValueError of a Retry-After that is no
\* number), on_404 is not called; also when the status is 404, 429 or a
\* server error, for which the rule has cases of their own.
C39_BreakOnFirst ==
    BrokenOn =>
        /\ returned.raised = "none"
        /\ ~returned.result
        /\ returned.on_404_calls = 0
        /\ returned.backoff.finished
        /\ returned.backoff = finish(call.backoff)
        /\ returned.backoff.next_backoff = NoBackoff

\* A handler whose break_on names 404, 429 and 503 and whose on_404 is a
\* string was given a 429 with a Retry-After of 3 seconds.
C39_Witness ==
    /\ BrokenOn
    /\ call.handler.break_on = {NotFound, TooManyRequests, 503}
    /\ call.handler.on_404.kind = "str"
    /\ call.exception.status = TooManyRequests
    /\ call.exception.headers = {<<RetryAfter, <<"3">>>>}
    /\ returned.backoff.finished

====
